---- MODULE Spec2Model ----
(***************************************************************************)
(* TinyChat agent (RLM) execution bridge.                                  *)
(*                                                                         *)
(* Modelled code:                                                          *)
(*   src/app/utils/state.py           StateManager (admission counters)    *)
(*   src/app/api/v1/chat.py           chat_stream: rlm_generate (agent     *)
(*                                    handler), rlm_missing_gen, image_gen *)
(*                                    and stream_response                  *)
(*   src/app/services/rlm_service.py  stream_rlm_completion (consumer) and *)
(*                                    rlm_worker (driver thread)           *)
(*                                                                         *)
(* Scheduling.  rlm_generate and stream_rlm_completion are async           *)
(* generators run by one asyncio event loop: control leaves them only at a *)
(* `yield` (a frame handed to the caller) or at an `await` that really     *)
(* suspends (asyncio.sleep).  The StateManager methods are awaited, but    *)
(* asyncio.Lock.acquire returns without suspending when the lock is free,  *)
(* and no lock body in state.py suspends, so the locks are never contended *)
(* and these awaits are not scheduling points: the code between two        *)
(* suspension points is one action.  rlm_worker runs on its own thread and *)
(* interleaves with the event loop at every statement that touches shared  *)
(* state (message_queue, thread_done, cancellation_requested, the clock).  *)
(***************************************************************************)
EXTENDS Integers, Sequences, FiniteSets, TLC

\* ------------------------------------------------------------------ bounds
NReq == 3                \* requests submitted in an admission run
MaxConcurrentCfg == 2    \* MAX_CONCURRENT_RLM is configured in 1..MaxConcurrentCfg
max_iterations == 2      \* rlm_inst.max_iterations
MaxTime == 2             \* the clock runs 0..MaxTime
RLM_TIMEOUT == 1         \* Settings.RLM_TIMEOUT, in clock units
MaxLen == 3              \* a raw final answer has at most MaxLen characters
MaxWords == 2            \* a response has at most MaxWords words
MaxBlocks == 2           \* a backend turn has at most MaxBlocks code blocks
MaxChunks == 1           \* a standard stream yields at most MaxChunks chunks

Req == 1..NReq

VARIABLES
    HAS_RLM,                 \* Settings.HAS_RLM (configuration)
    MAX_CONCURRENT_RLM,      \* Settings.MAX_CONCURRENT_RLM (configuration)
    active_generations,      \* state._active_generations
    active_rlm_generations,  \* state._active_rlm_generations
    now,                     \* time.time()
    show_thinking,           \* [Req -> BOOLEAN]  request.show_rlm_thinking
    cpc,                     \* [Req -> position of the request's generators]
    dpc,                     \* [Req -> position of the request's rlm_worker]
    iter,                    \* [Req -> the worker's loop variable i]
    message_queue,           \* [Req -> Seq(event)]  queue.Queue()
    thread_done,             \* [Req -> BOOLEAN]  threading.Event
    cancellation_requested,  \* [Req -> BOOLEAN]  threading.Event
    start_time,              \* [Req -> time]
    frames,                  \* [Req -> Seq(frame)] frames yielded to the caller
    emitted,                 \* [Req -> Seq(event)] history: every event put
    taken,                   \* [Req -> Seq(event)] history: every event got
    calls,                   \* [Req -> Nat] history: _completion_turn calls begun
    raised,                  \* [Req -> Nat] history: exceptions raised in rlm_worker
    assistant_full_content,  \* [Req -> text] the buffer of stream_rlm_completion
    chat_full_content,       \* [Req -> text] assistant_full_content of rlm_generate
    logged,                  \* [Req -> Seq(text)] responses given to log_conversation
    final_answer,            \* rlm_worker's final_answer, a string
    environment,             \* the sandbox bindings seen by lines 224-230
    norm_trace,              \* history: the values final_answer has taken
    turn,                    \* what one backend turn brought (see Turns)
    decision,                \* the final-answer decision on turn
    sandbox_calls,           \* history: the sandbox calls of the last clean-up
    block,                   \* a code block of iteration.code_blocks (see Blocks)
    rendered,                \* what lines 171-204 made of block
    RLM_PASSCODE,            \* Settings.RLM_PASSCODE
    rlm_passcode,            \* [Req -> request.rlm_passcode]
    page_loads,              \* _page_loads: session id -> timestamp of its last load
    last_tracked,            \* history: [SessionIds -> time of the last track_session, or Never]
    active_count,            \* the last value get_active_sessions returned
    messages,                \* the list given to filter_images_keep_latest, as it is now
    original,                \* history: that list as it was given
    filter_trace,            \* history: the lists the filter has returned
    outcome,                 \* [Req -> "none" | "admitted" | "rejected"]
    exit,                    \* [Req -> how the stream was closed, "open" before]
    acq,                     \* [Req -> history: increments / decrements done]
    pre                      \* [Req -> counters read when the request started]

admVars == <<HAS_RLM, MAX_CONCURRENT_RLM, active_generations, active_rlm_generations>>
reqVars == <<show_thinking, cpc, frames, outcome, exit, acq, pre>>
bridgeVars == <<message_queue, thread_done, cancellation_requested, start_time>>
driverVars == <<dpc, iter, emitted, calls, raised>>
logVars == <<assistant_full_content, chat_full_content, logged>>
decideVars == <<turn, decision>>
renderVars == <<block, rendered>>
authVars == <<RLM_PASSCODE, rlm_passcode>>
sessionVars == <<page_loads, last_tracked, active_count>>
filterVars == <<messages, original, filter_trace>>
pureVars == <<final_answer, environment, norm_trace, sandbox_calls, decideVars,
              renderVars, authVars, sessionVars, filterVars>>
vars == <<HAS_RLM, MAX_CONCURRENT_RLM, active_generations, active_rlm_generations,
          now, show_thinking, cpc, dpc, iter, message_queue, thread_done,
          cancellation_requested, start_time, frames, emitted, taken, calls,
          raised, assistant_full_content, chat_full_content, logged,
          final_answer, environment, norm_trace, turn, decision, sandbox_calls,
          block, rendered, RLM_PASSCODE, rlm_passcode,
          page_loads, last_tracked, active_count,
          messages, original, filter_trace,
          outcome, exit, acq, pre>>

\* --------------------------------------------------------- StateManager
increment_generations(n) == n + 1

decrement_generations(n) == n - 1

increment_rlm_generations_noop(n) == n

increment_rlm_generations(n) == n + 1

decrement_rlm_generations(n) == n - 1

check_rlm_capacity_le(n, max) == n <= max

check_rlm_capacity(n, max) == n < max

\* Settings.SESSION_TIMEOUT_MINUTES, in ticks of the clock.
SESSION_TIMEOUT_MINUTES == 1

MaxSessions == 3
SessionIds == 1..MaxSessions

\* No track_session yet.
Never == 0 - 1

\* _page_loads = {}
NoPageLoads == [sid \in {} |-> 0]

\* Line 73: _page_loads[session_id] = datetime.now()
track_session(loads, sid, t) ==
    [s \in DOMAIN loads \cup {sid} |-> IF s = sid THEN t ELSE loads[s]]

expired_sessions_upto(loads, cutoff) == {s \in DOMAIN loads : loads[s] <= cutoff}

\* Lines 83-86: the ids whose timestamp is before the cutoff.
expired_sessions(loads, cutoff) == {s \in DOMAIN loads : loads[s] < cutoff}

\* Lines 78-88: _page_loads after the expired sessions are deleted.
purge_sessions(loads, t) ==
    LET cutoff == t - SESSION_TIMEOUT_MINUTES
    IN  [s \in DOMAIN loads \ expired_sessions(loads, cutoff) |-> loads[s]]

\* ----------------------------------------------------------------- frames
\* A text is a sequence of tokens <<name, n>>; string concatenation is \o.
Token(name, n) == <<name, n>>

\* An SSE frame f"data: {json.dumps({kind: ...})}\\n\\n" carrying a text.
TextFrame(kind, of, text) == [kind |-> kind, of |-> of, text |-> text]

\* A frame whose text is a literal of the code.
Frame(kind, of) == TextFrame(kind, of, <<Token(of, 0)>>)

\* final_header of rlm_service.py line 261.
final_header == Token("final_header", 0)

\* chat.py lines 179-185: the content of a frame that has a 'content' key is
\* appended to the handler's assistant_full_content.
ChatAccumulate(buf, frame) ==
    IF frame.kind = "content" THEN buf \o frame.text ELSE buf

\* msg['content'] of an event.
Content(msg) == <<Token(msg.type, msg.n)>>

AccumulateFinalVerboseOnly(buf, msg, thinking) ==
    CASE msg.type \in {"status", "update", "final"} ->
             IF thinking THEN buf \o Content(msg) ELSE buf
      [] OTHER -> buf

\* rlm_service.py lines 256, 264 and 267: what the consumer appends to its
\* assistant_full_content for a message.
Accumulate(buf, msg, thinking) ==
    CASE msg.type \in {"status", "update"} ->
             IF thinking THEN buf \o Content(msg) ELSE buf
      [] msg.type = "final" ->
             IF thinking THEN buf \o <<final_header>> \o Content(msg)
                         ELSE buf \o Content(msg)
      [] OTHER -> buf

NoAcq == [gen_inc |-> 0, gen_dec |-> 0, rlm_inc |-> 0, rlm_dec |-> 0]

\* Positions at which a generator of the request is suspended in a `yield`.
YieldPcs == {"y_startup", "y_msg", "y_timeout"}

\* Positions at which stream_rlm_completion is suspended in asyncio.sleep.
AwaitPcs == {"grace", "sleep"}

\* --------------------------------------------- chat.py: rlm_missing_gen
\* Python's None.
None == "None"

\* Values of request.rlm_passcode: None, the empty string, and two passcodes;
\* Settings.RLM_PASSCODE is a string, empty when no passcode is configured.
Passcodes == {None, "", "p", "q"}

\* `not x` of a passcode.
Falsy(x) == x \in {None, ""}

PasscodeAcceptedIfPresent(configured, given) == Falsy(configured) \/ ~Falsy(given)

\* Lines 127-140: the request goes on to rlm_generate.
PasscodeAccepted(configured, given) ==
    Falsy(configured) \/ (~Falsy(given) /\ given = configured)

RlmMissingCounted(r) ==
    /\ cpc[r] = "new"
    /\ ~HAS_RLM
    /\ active_generations' = increment_generations(active_generations)
    /\ frames' = [frames EXCEPT ![r] = Append(@, Frame("error", "rlm_missing"))]
    /\ cpc' = [cpc EXCEPT ![r] = "y_missing"]
    /\ outcome' = [outcome EXCEPT ![r] = "unavailable"]
    /\ UNCHANGED <<HAS_RLM, MAX_CONCURRENT_RLM, active_rlm_generations, now, pureVars,
                   show_thinking, exit, acq, pre, taken, logVars>>
    /\ UNCHANGED <<bridgeVars, driverVars>>

\* Lines 120-124: Settings.HAS_RLM is false, the response is rlm_missing_gen,
\* whose only statement yields the error frame.
RlmMissing(r) ==
    /\ cpc[r] = "new"
    /\ ~HAS_RLM
    /\ frames' = [frames EXCEPT ![r] = Append(@, Frame("error", "rlm_missing"))]
    /\ cpc' = [cpc EXCEPT ![r] = "y_missing"]
    /\ outcome' = [outcome EXCEPT ![r] = "unavailable"]
    /\ UNCHANGED <<admVars, now, pureVars, show_thinking, exit, acq, pre, taken, logVars>>
    /\ UNCHANGED <<bridgeVars, driverVars>>

\* The caller asks for the next frame, or closes the stream, while
\* rlm_missing_gen is suspended at line 122: the generator ends.
RlmMissingEnd(r) ==
    /\ cpc[r] = "y_missing"
    /\ cpc' = [cpc EXCEPT ![r] = "closed"]
    /\ exit' = [exit EXCEPT ![r] = "rlm_missing"]
    /\ UNCHANGED <<admVars, now, pureVars, show_thinking, frames, outcome, acq, pre, taken,
                   logVars>>
    /\ UNCHANGED <<bridgeVars, driverVars>>

\* Lines 128-132: a passcode is configured and the request has none; the
\* response is rlm_auth_error_gen, whose only statement yields the error frame.
AuthMissing(r) ==
    /\ cpc[r] = "new"
    /\ HAS_RLM
    /\ ~Falsy(RLM_PASSCODE)
    /\ Falsy(rlm_passcode[r])
    /\ frames' = [frames EXCEPT ![r] = Append(@, Frame("error", "auth_missing"))]
    /\ cpc' = [cpc EXCEPT ![r] = "y_auth"]
    /\ outcome' = [outcome EXCEPT ![r] = "denied"]
    /\ UNCHANGED <<admVars, now, pureVars, show_thinking, exit, acq, pre, taken, logVars>>
    /\ UNCHANGED <<bridgeVars, driverVars>>

\* Lines 134-138: the request's passcode is not the configured one; the
\* response is rlm_invalid_passcode_gen.
AuthInvalid(r) ==
    /\ cpc[r] = "new"
    /\ HAS_RLM
    /\ ~Falsy(RLM_PASSCODE)
    /\ ~Falsy(rlm_passcode[r])
    /\ rlm_passcode[r] # RLM_PASSCODE
    /\ frames' = [frames EXCEPT ![r] = Append(@, Frame("error", "auth_invalid"))]
    /\ cpc' = [cpc EXCEPT ![r] = "y_auth"]
    /\ outcome' = [outcome EXCEPT ![r] = "denied"]
    /\ UNCHANGED <<admVars, now, pureVars, show_thinking, exit, acq, pre, taken, logVars>>
    /\ UNCHANGED <<bridgeVars, driverVars>>

\* The caller asks for the next frame, or closes the stream, while the
\* error generator is suspended at its yield: the generator ends.
AuthEnd(r) ==
    /\ cpc[r] = "y_auth"
    /\ cpc' = [cpc EXCEPT ![r] = "closed"]
    /\ exit' = [exit EXCEPT ![r] = "denied"]
    /\ UNCHANGED <<admVars, now, pureVars, show_thinking, frames, outcome, acq, pre, taken,
                   logVars>>
    /\ UNCHANGED <<bridgeVars, driverVars>>

\* ------------------------------------------------ chat.py: rlm_generate
\* First resumption of rlm_generate: lines 143-151, then the first frame
\* of stream_rlm_completion (rlm_service.py 53-58) passed on at line 177,
\* or the capacity error frame of line 147.
Start(r) ==
    /\ cpc[r] = "new"
    /\ HAS_RLM
    /\ PasscodeAccepted(RLM_PASSCODE, rlm_passcode[r])
    /\ pre' = [pre EXCEPT ![r] = [gen |-> active_generations,
                                  rlm |-> active_rlm_generations]]
    /\ active_generations' = increment_generations(active_generations)
    /\ IF ~check_rlm_capacity(active_rlm_generations, MAX_CONCURRENT_RLM)
       THEN /\ frames' = [frames EXCEPT ![r] = Append(@, Frame("error", "capacity"))]
            /\ cpc' = [cpc EXCEPT ![r] = "rej_yield"]
            /\ outcome' = [outcome EXCEPT ![r] = "rejected"]
            /\ acq' = [acq EXCEPT ![r].gen_inc = @ + 1]
            /\ UNCHANGED active_rlm_generations
       ELSE /\ active_rlm_generations' = increment_rlm_generations(active_rlm_generations)
            /\ frames' = [frames EXCEPT ![r] = Append(@, Frame("content", "startup"))]
            /\ cpc' = [cpc EXCEPT ![r] = "y_startup"]
            /\ outcome' = [outcome EXCEPT ![r] = "admitted"]
            /\ acq' = [acq EXCEPT ![r].gen_inc = @ + 1, ![r].rlm_inc = @ + 1]
    /\ UNCHANGED <<HAS_RLM, MAX_CONCURRENT_RLM, now, pureVars, show_thinking, exit, taken, logVars>>
    /\ UNCHANGED <<bridgeVars, driverVars>>

RejResumeReleasesLoop(r) ==
    /\ cpc[r] = "rej_yield"
    /\ active_generations' = decrement_generations(active_generations)
    /\ active_rlm_generations' = decrement_rlm_generations(active_rlm_generations)
    /\ acq' = [acq EXCEPT ![r].gen_dec = @ + 1, ![r].rlm_dec = @ + 1]
    /\ cpc' = [cpc EXCEPT ![r] = "closed"]
    /\ exit' = [exit EXCEPT ![r] = "rejected"]
    /\ UNCHANGED <<HAS_RLM, MAX_CONCURRENT_RLM, now, pureVars, show_thinking,
                   frames, outcome, pre, taken, logVars>>
    /\ UNCHANGED <<bridgeVars, driverVars>>

\* The caller asks for the next frame after the capacity error: lines 148-149.
RejResume(r) ==
    /\ cpc[r] = "rej_yield"
    /\ active_generations' = decrement_generations(active_generations)
    /\ acq' = [acq EXCEPT ![r].gen_dec = @ + 1]
    /\ cpc' = [cpc EXCEPT ![r] = "closed"]
    /\ exit' = [exit EXCEPT ![r] = "rejected"]
    /\ UNCHANGED <<HAS_RLM, MAX_CONCURRENT_RLM, active_rlm_generations, now, pureVars, show_thinking,
                   frames, outcome, pre, taken, logVars>>
    /\ UNCHANGED <<bridgeVars, driverVars>>

\* The caller closes the stream while rlm_generate is suspended at line 147:
\* GeneratorExit is raised at that yield, outside any try, so lines 148-149
\* are not run.
RejClose(r) ==
    /\ cpc[r] = "rej_yield"
    /\ cpc' = [cpc EXCEPT ![r] = "closed"]
    /\ exit' = [exit EXCEPT ![r] = "rejected_closed"]
    /\ UNCHANGED <<admVars, now, pureVars, show_thinking, frames, outcome, acq, pre, taken, logVars>>
    /\ UNCHANGED <<bridgeVars, driverVars>>

\* The finally clause of rlm_generate, lines 194-196, which ends the stream.
Finally(r, how) ==
    /\ active_generations' = decrement_generations(active_generations)
    /\ active_rlm_generations' = decrement_rlm_generations(active_rlm_generations)
    /\ acq' = [acq EXCEPT ![r].gen_dec = @ + 1, ![r].rlm_dec = @ + 1]
    /\ cpc' = [cpc EXCEPT ![r] = "closed"]
    /\ exit' = [exit EXCEPT ![r] = how]
    /\ UNCHANGED <<HAS_RLM, MAX_CONCURRENT_RLM, show_thinking, outcome, pre>>

CallerCloseNoFinally(r) ==
    /\ cpc[r] \in YieldPcs
    /\ cpc' = [cpc EXCEPT ![r] = "closed"]
    /\ exit' = [exit EXCEPT ![r] = "caller_closed"]
    /\ UNCHANGED <<admVars, now, pureVars, show_thinking, frames, outcome, acq, pre, taken, logVars>>
    /\ UNCHANGED <<bridgeVars, driverVars>>

\* The caller closes the stream while rlm_generate is suspended at line 177:
\* GeneratorExit is raised inside the try, the finally clause runs.
CallerClose(r) ==
    /\ cpc[r] \in YieldPcs
    /\ Finally(r, "caller_closed")
    /\ UNCHANGED <<now, pureVars, frames, taken, logVars>>
    /\ UNCHANGED <<bridgeVars, driverVars>>

\* chat.py lines 188-193: LoggingService.log_conversation(request.messages,
\* assistant_full_content, ...) receives the handler's buffer.
log_conversation(r, text) == logged' = [logged EXCEPT ![r] = Append(@, text)]

\* ------------------------------------------------------- admission runs
\* In an admission run the interior of an admitted stream is not followed:
\* the stream runs to its end (lines 171-193) or an exception leaves the
\* async-for, and the finally clause runs.
StreamFinish(r) ==
    /\ cpc[r] = "y_startup"
    /\ LET buf == ChatAccumulate(chat_full_content[r], frames[r][Len(frames[r])])
       IN  /\ chat_full_content' = [chat_full_content EXCEPT ![r] = buf]
           /\ log_conversation(r, buf)
    /\ Finally(r, "finished")
    /\ UNCHANGED <<now, pureVars, frames, taken, assistant_full_content>>
    /\ UNCHANGED <<bridgeVars, driverVars>>

StreamRaise(r) ==
    /\ cpc[r] = "y_startup"
    /\ Finally(r, "raised")
    /\ UNCHANGED <<now, pureVars, frames, taken, logVars>>
    /\ UNCHANGED <<bridgeVars, driverVars>>

\* --------------------------- chat.py: image_gen and stream_response
\* What neither image_gen nor stream_response touches.
StreamUnchanged ==
    /\ UNCHANGED <<HAS_RLM, MAX_CONCURRENT_RLM, active_rlm_generations, now,
                   pureVars, show_thinking, pre, taken, assistant_full_content>>
    /\ UNCHANGED <<bridgeVars, driverVars>>

\* Lines 74 and 213: await StateManager.increment_generations().
Acquire(r, kind) ==
    /\ active_generations' = increment_generations(active_generations)
    /\ acq' = [acq EXCEPT ![r].gen_inc = @ + 1]
    /\ outcome' = [outcome EXCEPT ![r] = kind]

\* Lines 105-106 and 238-239: finally: await StateManager.decrement_generations(),
\* which ends the stream.
Release(r, how) ==
    /\ active_generations' = decrement_generations(active_generations)
    /\ acq' = [acq EXCEPT ![r].gen_dec = @ + 1]
    /\ cpc' = [cpc EXCEPT ![r] = "closed"]
    /\ exit' = [exit EXCEPT ![r] = how]

\* First resumption of image_gen: lines 74-79, up to the first yield.
ImageStart(r) ==
    /\ cpc[r] = "new"
    /\ Acquire(r, "image")
    /\ frames' = [frames EXCEPT ![r] = Append(@, Frame("content", "generating"))]
    /\ cpc' = [cpc EXCEPT ![r] = "img_y"]
    /\ UNCHANGED <<exit, chat_full_content, logged>>
    /\ StreamUnchanged

\* The caller asks for the next frame: line 82 awaits ImageService.generate_image.
ImageGenerate(r) ==
    /\ cpc[r] = "img_y"
    /\ Len(frames[r]) = 1
    /\ cpc' = [cpc EXCEPT ![r] = "img_await"]
    /\ UNCHANGED <<active_generations, acq, outcome, exit, frames,
                   chat_full_content, logged>>
    /\ StreamUnchanged

\* Line 82 returns or raises: the frame of line 86, of line 93 or, from the
\* except clause, of line 103.
ImageResult(r) ==
    /\ cpc[r] = "img_await"
    /\ \E res \in {"image_error", "image", "image_failed"} :
          frames' = [frames EXCEPT ![r] = Append(@, Frame("content", res))]
    /\ cpc' = [cpc EXCEPT ![r] = "img_y"]
    /\ UNCHANGED <<active_generations, acq, outcome, exit, chat_full_content, logged>>
    /\ StreamUnchanged

\* The caller asks for the next frame after the second one: lines 96-101 log
\* a generated image, then the finally clause runs and the generator ends.
ImageEnd(r) ==
    /\ cpc[r] = "img_y"
    /\ Len(frames[r]) = 2
    /\ IF frames[r][2] = Frame("content", "image")
       THEN log_conversation(r, <<Token("generated_image", 0)>>)
       ELSE UNCHANGED logged
    /\ Release(r, "image_done")
    /\ UNCHANGED <<outcome, frames, chat_full_content>>
    /\ StreamUnchanged

\* The caller closes the stream while image_gen is suspended in a yield:
\* GeneratorExit is no Exception, the finally clause runs.
ImageClose(r) ==
    /\ cpc[r] = "img_y"
    /\ Release(r, "image_closed")
    /\ UNCHANGED <<outcome, frames, chat_full_content, logged>>
    /\ StreamUnchanged

\* The request's task is cancelled while line 82 is awaited: CancelledError
\* is no Exception, the finally clause runs.
ImageCancel(r) ==
    /\ cpc[r] = "img_await"
    /\ Release(r, "image_cancelled")
    /\ UNCHANGED <<outcome, frames, chat_full_content, logged>>
    /\ StreamUnchanged

\* First resumption of stream_response: lines 213-221, up to the first await
\* of LLMService.stream_completion.
StdStart(r) ==
    /\ cpc[r] = "new"
    /\ Acquire(r, "standard")
    /\ cpc' = [cpc EXCEPT ![r] = "std_await"]
    /\ UNCHANGED <<exit, frames, chat_full_content, logged>>
    /\ StreamUnchanged

\* stream_completion yields a chunk, passed on at line 222.
StdChunk(r) ==
    /\ cpc[r] = "std_await"
    /\ Len(frames[r]) < MaxChunks
    /\ \E kind \in {"content", "error"} :
          frames' = [frames EXCEPT ![r] = Append(@, Frame(kind, "chunk"))]
    /\ cpc' = [cpc EXCEPT ![r] = "std_y"]
    /\ UNCHANGED <<active_generations, acq, outcome, exit, chat_full_content, logged>>
    /\ StreamUnchanged

\* The caller asks for the next frame: lines 224-230 append the content.
StdResume(r) ==
    /\ cpc[r] = "std_y"
    /\ chat_full_content' =
          [chat_full_content EXCEPT ![r] = ChatAccumulate(@, frames[r][Len(frames[r])])]
    /\ cpc' = [cpc EXCEPT ![r] = "std_await"]
    /\ UNCHANGED <<active_generations, acq, outcome, exit, frames, logged>>
    /\ StreamUnchanged

\* stream_completion ends: lines 233-238 log, the finally clause runs.
StdFinish(r) ==
    /\ cpc[r] = "std_await"
    /\ log_conversation(r, chat_full_content[r])
    /\ Release(r, "std_done")
    /\ UNCHANGED <<outcome, frames, chat_full_content>>
    /\ StreamUnchanged

\* inject_document_context or stream_completion raises, or the task is
\* cancelled in an await: the finally clause runs.
StdRaise(r) ==
    /\ cpc[r] = "std_await"
    /\ Release(r, "std_raised")
    /\ UNCHANGED <<outcome, frames, chat_full_content, logged>>
    /\ StreamUnchanged

StdCloseNoFinally(r) ==
    /\ cpc[r] = "std_y"
    /\ cpc' = [cpc EXCEPT ![r] = "closed"]
    /\ exit' = [exit EXCEPT ![r] = "std_closed"]
    /\ UNCHANGED <<active_generations, acq, outcome, frames, chat_full_content, logged>>
    /\ StreamUnchanged

\* The caller closes the stream while stream_response is suspended at line
\* 222: GeneratorExit is raised inside the try, the finally clause runs.
StdClose(r) ==
    /\ cpc[r] = "std_y"
    /\ Release(r, "std_closed")
    /\ UNCHANGED <<outcome, frames, chat_full_content, logged>>
    /\ StreamUnchanged

\* ------------------------------------------------------ the event bridge
Event(type, why, n, seq) == [type |-> type, why |-> why, n |-> n, seq |-> seq]

\* message_queue.put(...): queue.Queue() is unbounded, put never blocks.
Put(r, type, why, n) ==
    LET ev == Event(type, why, n, Len(emitted[r]) + 1)
    IN  /\ message_queue' = [message_queue EXCEPT ![r] = Append(@, ev)]
        /\ emitted' = [emitted EXCEPT ![r] = Append(@, ev)]

QueueGetLifo(q) == q[Len(q)]

\* message_queue.get(): the oldest event of a FIFO queue.Queue.
QueueGet(q) == Head(q)

QueueRest(q) == Tail(q)

Elapsed(r) == now - start_time[r]

\* time.time() - start_time > Settings.RLM_TIMEOUT
Expired(r) == Elapsed(r) > RLM_TIMEOUT

\* -------------------------- rlm_service.py: stream_rlm_completion (consumer)
\* The caller asks for the next frame after the startup indicator:
\* lines 61-89 and 244-247, up to the first test of the while condition.
Prepare(r) ==
    /\ cpc[r] = "y_startup"
    /\ message_queue' = [message_queue EXCEPT ![r] = <<>>]
    /\ thread_done' = [thread_done EXCEPT ![r] = FALSE]
    /\ cancellation_requested' = [cancellation_requested EXCEPT ![r] = FALSE]
    /\ start_time' = [start_time EXCEPT ![r] = now]
    /\ dpc' = [dpc EXCEPT ![r] = "enter"]
    /\ cpc' = [cpc EXCEPT ![r] = "loop"]
    /\ chat_full_content' =
          [chat_full_content EXCEPT ![r] = ChatAccumulate(@, frames[r][Len(frames[r])])]
    /\ assistant_full_content' = [assistant_full_content EXCEPT ![r] = <<>>]
    /\ UNCHANGED <<admVars, now, pureVars, show_thinking, frames, outcome, exit, acq, pre>>
    /\ UNCHANGED <<iter, emitted, calls, raised, taken, logged>>

\* RLM(...) at line 61 (or any statement up to line 245) raises: the exception
\* leaves stream_rlm_completion and the async-for of chat.py line 171.
PrepareRaise(r) ==
    /\ cpc[r] = "y_startup"
    /\ Finally(r, "consumer_raised")
    /\ UNCHANGED <<now, pureVars, frames, taken, logVars>>
    /\ UNCHANGED <<bridgeVars, driverVars>>

LoopDoneNoDrain(r) == thread_done[r]

\* The negation of the while condition of line 250.
LoopDone(r) == thread_done[r] /\ message_queue[r] = <<>>

\* Line 250: while not thread_done.is_set() or not message_queue.empty().
\* When the loop ends the generator returns, chat.py lines 188-193 log the
\* conversation and the finally clause runs.
LoopTest(r) ==
    /\ cpc[r] = "loop"
    /\ IF LoopDone(r)
       THEN /\ log_conversation(r, chat_full_content[r])
            /\ Finally(r, "drained")
            /\ UNCHANGED <<now, pureVars, frames, taken, assistant_full_content,
                           chat_full_content>>
            /\ UNCHANGED <<bridgeVars, driverVars>>
       ELSE /\ cpc' = [cpc EXCEPT ![r] = "get"]
            /\ UNCHANGED <<admVars, now, pureVars, show_thinking, frames, outcome, exit,
                           acq, pre, taken, logVars>>
            /\ UNCHANGED <<bridgeVars, driverVars>>

FrameOfForwardAll(msg, thinking) ==
    CASE msg.type \in {"status", "update"} ->
             <<TextFrame("content", msg.type, Content(msg))>>
      [] msg.type = "brief_status" ->
             <<TextFrame("rlm_status", "brief_status", Content(msg))>>
      [] msg.type = "final" ->
             IF thinking
             THEN <<TextFrame("content", "final", <<final_header>> \o Content(msg))>>
             ELSE <<TextFrame("content", "final", Content(msg))>>
      [] msg.type = "error" -> <<TextFrame("error", "driver", <<Token(msg.why, 0)>>)>>
      [] OTHER -> <<>>

FrameOfBriefAsContent(msg, thinking) ==
    CASE msg.type \in {"status", "update", "brief_status"} ->
             IF thinking \/ msg.type = "brief_status"
             THEN <<TextFrame("content", msg.type, Content(msg))>>
             ELSE <<>>
      [] msg.type = "final" ->
             IF thinking
             THEN <<TextFrame("content", "final", <<final_header>> \o Content(msg))>>
             ELSE <<TextFrame("content", "final", Content(msg))>>
      [] msg.type = "error" -> <<TextFrame("error", "driver", <<Token(msg.why, 0)>>)>>
      [] OTHER -> <<>>

\* The frame lines 253-269 yield for a message, or none.
FrameOf(msg, thinking) ==
    CASE msg.type \in {"status", "update"} ->
             IF thinking THEN <<TextFrame("content", msg.type, Content(msg))>>
                         ELSE <<>>
      [] msg.type = "brief_status" ->
             <<TextFrame("rlm_status", "brief_status", Content(msg))>>
      [] msg.type = "final" ->
             IF thinking
             THEN <<TextFrame("content", "final", <<final_header>> \o Content(msg))>>
             ELSE <<TextFrame("content", "final", Content(msg))>>
      [] msg.type = "error" -> <<TextFrame("error", "driver", <<Token(msg.why, 0)>>)>>
      [] OTHER -> <<>>

\* Line 252: msg = message_queue.get(timeout=0.1), a blocking call of the
\* event-loop thread, and the dispatch of lines 253-269 up to its yield;
\* queue.Empty leads to the handler of line 270.
Get(r) ==
    /\ cpc[r] = "get"
    /\ IF message_queue[r] # <<>>
       THEN LET msg == QueueGet(message_queue[r])
                fr == FrameOf(msg, show_thinking[r])
            IN  /\ message_queue' = [message_queue EXCEPT ![r] = QueueRest(@)]
                /\ taken' = [taken EXCEPT ![r] = Append(@, msg)]
                /\ frames' = [frames EXCEPT ![r] = @ \o fr]
                /\ cpc' = [cpc EXCEPT ![r] = IF fr = <<>> THEN "loop" ELSE "y_msg"]
       ELSE /\ cpc' = [cpc EXCEPT ![r] = "empty"]
            /\ UNCHANGED <<message_queue, taken, frames>>
    /\ UNCHANGED <<admVars, now, pureVars, show_thinking, outcome, exit, acq, pre, logVars>>
    /\ UNCHANGED <<thread_done, cancellation_requested, start_time, driverVars>>

\* The caller asks for the next frame after a message frame: rlm_generate
\* appends the frame's content (chat.py 179-185), then the consumer runs the
\* statements after its yield (lines 256, 264, 267) and goes back to line 250.
Resume(r) ==
    /\ cpc[r] = "y_msg"
    /\ cpc' = [cpc EXCEPT ![r] = "loop"]
    /\ chat_full_content' =
          [chat_full_content EXCEPT ![r] = ChatAccumulate(@, frames[r][Len(frames[r])])]
    /\ assistant_full_content' =
          [assistant_full_content EXCEPT
              ![r] = Accumulate(@, taken[r][Len(taken[r])], show_thinking[r])]
    /\ UNCHANGED <<admVars, now, pureVars, show_thinking, frames, outcome, exit, acq, pre,
                   taken, logged>>
    /\ UNCHANGED <<bridgeVars, driverVars>>

HandleEmptyWaitsForDriver(r) ==
    /\ cpc[r] = "empty"
    /\ IF Expired(r) /\ thread_done[r]
       THEN /\ cancellation_requested' = [cancellation_requested EXCEPT ![r] = TRUE]
            /\ cpc' = [cpc EXCEPT ![r] = "y_timeout"]
            /\ frames' = [frames EXCEPT ![r] = Append(@, Frame("error", "timeout"))]
       ELSE /\ cpc' = [cpc EXCEPT ![r] = "sleep"]
            /\ UNCHANGED <<cancellation_requested, frames>>
    /\ UNCHANGED <<admVars, now, pureVars, show_thinking, outcome, exit, acq, pre, taken, logVars>>
    /\ UNCHANGED <<message_queue, thread_done, start_time, driverVars>>

\* Lines 270-280: the queue.Empty handler.
HandleEmpty(r) ==
    /\ cpc[r] = "empty"
    /\ IF Expired(r)
       THEN /\ cancellation_requested' = [cancellation_requested EXCEPT ![r] = TRUE]
            /\ IF ~thread_done[r]
               THEN /\ cpc' = [cpc EXCEPT ![r] = "grace"]
                    /\ UNCHANGED frames
               ELSE /\ cpc' = [cpc EXCEPT ![r] = "y_timeout"]
                    /\ frames' = [frames EXCEPT ![r] = Append(@, Frame("error", "timeout"))]
       ELSE /\ cpc' = [cpc EXCEPT ![r] = "sleep"]
            /\ UNCHANGED <<cancellation_requested, frames>>
    /\ UNCHANGED <<admVars, now, pureVars, show_thinking, outcome, exit, acq, pre, taken, logVars>>
    /\ UNCHANGED <<message_queue, thread_done, start_time, driverVars>>

GraceEndJoin(r) ==
    /\ cpc[r] = "grace"
    /\ thread_done[r]
    /\ cpc' = [cpc EXCEPT ![r] = "y_timeout"]
    /\ frames' = [frames EXCEPT ![r] = Append(@, Frame("error", "timeout"))]
    /\ UNCHANGED <<admVars, now, pureVars, show_thinking, outcome, exit, acq, pre, taken, logVars>>
    /\ UNCHANGED <<bridgeVars, driverVars>>

\* Line 277 returns: await asyncio.sleep(0.5) is over, line 278 yields.
GraceEnd(r) ==
    /\ cpc[r] = "grace"
    /\ cpc' = [cpc EXCEPT ![r] = "y_timeout"]
    /\ frames' = [frames EXCEPT ![r] = Append(@, Frame("error", "timeout"))]
    /\ UNCHANGED <<admVars, now, pureVars, show_thinking, outcome, exit, acq, pre, taken, logVars>>
    /\ UNCHANGED <<bridgeVars, driverVars>>

\* Line 280 returns: await asyncio.sleep(0.1) is over.
SleepEnd(r) ==
    /\ cpc[r] = "sleep"
    /\ cpc' = [cpc EXCEPT ![r] = "loop"]
    /\ UNCHANGED <<admVars, now, pureVars, show_thinking, frames, outcome, exit, acq, pre, taken, logVars>>
    /\ UNCHANGED <<bridgeVars, driverVars>>

\* The caller asks for the next frame after the timeout frame: line 279
\* breaks, the generator returns, chat.py logs and runs the finally clause.
TimeoutBreak(r) ==
    /\ cpc[r] = "y_timeout"
    /\ LET buf == ChatAccumulate(chat_full_content[r], frames[r][Len(frames[r])])
       IN  /\ chat_full_content' = [chat_full_content EXCEPT ![r] = buf]
           /\ log_conversation(r, buf)
    /\ Finally(r, "timeout")
    /\ UNCHANGED <<now, pureVars, frames, taken, assistant_full_content>>
    /\ UNCHANGED <<bridgeVars, driverVars>>

\* The request's task is cancelled while stream_rlm_completion is suspended
\* in asyncio.sleep: CancelledError leaves both generators through the
\* finally clause.
Cancel(r) ==
    /\ cpc[r] \in AwaitPcs
    /\ Finally(r, "cancelled")
    /\ UNCHANGED <<now, pureVars, frames, taken, logVars>>
    /\ UNCHANGED <<bridgeVars, driverVars>>

\* ------------------- rlm_service.py: clean-up of the final answer (218-230)
\* A string is a sequence of characters of this alphabet.
Whitespace == {" "}
Letters == {"a", "b"}
Digits == {"1"}
Chars == Whitespace \cup {"\"", "'"} \cup Letters \cup Digits

RECURSIVE Strings(_)
Strings(n) ==
    IF n = 0
    THEN {<<>>}
    ELSE Strings(n - 1) \cup
         {Append(s, c) : s \in {t \in Strings(n - 1) : Len(t) = n - 1}, c \in Chars}

RECURSIVE lstrip(_, _)
lstrip(s, cs) == IF s # <<>> /\ Head(s) \in cs THEN lstrip(Tail(s), cs) ELSE s

RECURSIVE rstrip(_, _)
rstrip(s, cs) ==
    IF s # <<>> /\ s[Len(s)] \in cs
    THEN rstrip(SubSeq(s, 1, Len(s) - 1), cs)
    ELSE s

\* str.strip(chars): leading and trailing characters of cs are removed.
strip(s, cs) == rstrip(lstrip(s, cs), cs)

\* str.isidentifier(): a letter first, letters and digits after it.
isidentifier(s) ==
    /\ s # <<>>
    /\ s[1] \in Letters
    /\ \A i \in 1..Len(s) : s[i] \in Letters \cup Digits

\* The names the sandbox may know, and the texts it may hold for them.
Names == {<<"a">>, <<"b">>}
Values == {<<"b">>, <<"1">>, <<" ", "1">>}

\* The sandbox, per name: bound in environment.locals ("local"), unknown to
\* locals but printable ("global": execute_code gives stdout, no stderr), or
\* undefined (execute_code gives stderr).
Bindings ==
    [how : {"local", "global"}, val : Values] \cup {[how |-> "undefined", val |-> <<>>]}

Environments == [Names -> Bindings]

NoEnvironment == [nm \in Names |-> [how |-> "undefined", val |-> <<>>]]

\* Line 221: final_answer.strip().strip('"').strip("'")
CleanUp(s) == strip(strip(strip(s, Whitespace), {"\""}), {"'"})

\* A call made to the sandbox: the test `v in environment.locals` with the
\* read that follows it, or environment.execute_code(f"print({v})").
Lookup(v) == [call |-> "locals", arg |-> v]
Probe(v) == [call |-> "execute_code", arg |-> <<"print(">> \o v \o <<")">>]

ResolveUnguarded(v, env) ==
    IF v \in Names /\ env[v].how = "local"
    THEN [value |-> env[v].val, calls |-> <<Lookup(v)>>]
    ELSE IF v \in Names /\ env[v].how = "global"
    THEN [value |-> strip(env[v].val, Whitespace), calls |-> <<Lookup(v), Probe(v)>>]
    ELSE [value |-> v, calls |-> <<Lookup(v), Probe(v)>>]

\* Lines 155-162 and 224-230: the value a cleaned string resolves to, and the
\* sandbox calls made for it.
Resolve(v, env) ==
    IF ~isidentifier(v)
    THEN [value |-> v, calls |-> <<>>]
    ELSE IF v \in Names /\ env[v].how = "local"
    THEN [value |-> env[v].val, calls |-> <<Lookup(v)>>]
    ELSE IF v \in Names /\ env[v].how = "global"
    THEN [value |-> strip(env[v].val, Whitespace), calls |-> <<Lookup(v), Probe(v)>>]
    ELSE [value |-> v, calls |-> <<Lookup(v), Probe(v)>>]

\* The last non-blank line of a code block, by its shape: "assign" has an '='
\* and no leading if/for/while/def/class, and name is what stands left of the
\* '=' (after a ':' if there is one); "ident" is a line that is name alone;
\* "other" is any other line; "empty" is a block whose code is blank.
Forms == {"assign", "ident", "other", "empty"}
Targets == {<<"a">>, <<"b">>, <<"a", "1">>, <<"1">>}

\* cb.code and cb.result of a code block; raises says that the sandbox raises
\* when asked for a value (str() of the local, or execute_code).
Blocks ==
    [form : Forms, name : Targets, stdout : {<<>>, <<"1">>},
     stderr : {<<>>, <<"1">>}, raises : BOOLEAN]

NoOutput == <<"[No Output]">>
VariableResult(name, val) == <<"[Variable ">> \o name \o <<" = ">> \o val \o <<"]">>
ValueResult(val) == <<"[Value = ">> \o val \o <<"]">>

SmartCaptureUncaught(b, env) ==
    IF b.stdout # <<>> \/ b.stderr # <<>>
    THEN [styled |-> b.stdout, escaped |-> FALSE]
    ELSE IF b.form \in {"assign", "ident"} /\ isidentifier(b.name)
    THEN IF b.raises
         THEN [styled |-> <<>>, escaped |-> TRUE]
         ELSE LET val == Resolve(CleanUp(b.name), env).value
              IN  IF val = b.name
                  THEN [styled |-> <<>>, escaped |-> FALSE]
                  ELSE IF b.form = "assign"
                  THEN [styled |-> VariableResult(b.name, val), escaped |-> FALSE]
                  ELSE [styled |-> ValueResult(val), escaped |-> FALSE]
    ELSE [styled |-> <<>>, escaped |-> FALSE]

\* Lines 174-196: stdout_styled after the smart output capture, and whether
\* an exception leaves the try of line 178.
SmartCapture(b, env) ==
    IF b.stdout # <<>> \/ b.stderr # <<>>
    THEN [styled |-> b.stdout, escaped |-> FALSE]
    ELSE IF b.form \in {"assign", "ident"} /\ isidentifier(b.name)
    THEN IF b.raises
         THEN [styled |-> <<>>, escaped |-> FALSE]
         ELSE LET val == Resolve(CleanUp(b.name), env).value
              IN  IF val = b.name
                  THEN [styled |-> <<>>, escaped |-> FALSE]
                  ELSE IF b.form = "assign"
                  THEN [styled |-> VariableResult(b.name, val), escaped |-> FALSE]
                  ELSE [styled |-> ValueResult(val), escaped |-> FALSE]
    ELSE [styled |-> <<>>, escaped |-> FALSE]

\* Lines 171-204 for one block: what the update shows as its result, and
\* whether the update is put.
Render(b, env) ==
    IF b.form = "empty"
    THEN [shown |-> FALSE, result |-> <<>>, escaped |-> FALSE, update |-> TRUE]
    ELSE LET c == SmartCapture(b, env)
         IN  [shown |-> ~c.escaped,
              result |-> IF c.escaped THEN <<>>
                         ELSE IF c.styled = <<>> THEN NoOutput ELSE c.styled,
              escaped |-> c.escaped,
              update |-> ~c.escaped]

\* Lines 224-230: the smart variable resolution of a cleaned answer.
ResolveVariable(v, env) == Resolve(v, env).value

\* Lines 220-230.
NormalizeFinalAnswer(s, env) == ResolveVariable(CleanUp(s), env)

\* ------------- rlm_service.py: the final-answer decision (lines 206-216)
\* A response is a sequence of words; str.lower() of a word.
Words == {"Final Answer", "COMPLETED", "thinking"}

lower(w) ==
    CASE w = "Final Answer" -> "final answer"
      [] w = "COMPLETED" -> "completed"
      [] OTHER -> w

\* phrase in iteration.response.lower()
Contains(response, phrase) ==
    \E i \in 1..Len(response) : lower(response[i]) = phrase

Newline == "\n"
Blank == Whitespace \cup {Newline}

\* Lines 146-149: the stdout of every code block that has some, each
\* followed by a newline.
RECURSIVE GatherOutputs(_)
GatherOutputs(stdouts) ==
    IF stdouts = <<>>
    THEN <<>>
    ELSE (IF Head(stdouts) # <<>> THEN Head(stdouts) \o <<Newline>> ELSE <<>>)
         \o GatherOutputs(Tail(stdouts))

FinalAnswerDecisionNonEmpty(marker, response, stdouts) ==
    LET execution_outputs == GatherOutputs(stdouts)
    IN  IF marker # None
        THEN [found |-> TRUE, source |-> "marker", value |-> marker]
        ELSE IF Contains(response, "final answer") \/ Contains(response, "completed")
        THEN IF execution_outputs # <<>>
             THEN [found |-> TRUE, source |-> "stdout",
                   value |-> strip(execution_outputs, Blank)]
             ELSE [found |-> TRUE, source |-> "response", value |-> response]
        ELSE [found |-> FALSE, source |-> "none", value |-> <<>>]

\* Lines 206-216: final_answer before its clean-up; found is
\* `final_answer is not None`.
FinalAnswerDecision(marker, response, stdouts) ==
    LET execution_outputs == GatherOutputs(stdouts)
    IN  IF marker # None
        THEN [found |-> TRUE, source |-> "marker", value |-> marker]
        ELSE IF Contains(response, "final answer") \/ Contains(response, "completed")
        THEN IF strip(execution_outputs, Blank) # <<>>
             THEN [found |-> TRUE, source |-> "stdout",
                   value |-> strip(execution_outputs, Blank)]
             ELSE [found |-> TRUE, source |-> "response", value |-> response]
        ELSE [found |-> FALSE, source |-> "none", value |-> <<>>]

RECURSIVE SeqsUpTo(_, _)
SeqsUpTo(S, n) ==
    IF n = 0
    THEN {<<>>}
    ELSE SeqsUpTo(S, n - 1) \cup
         {Append(s, x) : s \in {t \in SeqsUpTo(S, n - 1) : Len(t) = n - 1}, x \in S}

\* What one backend turn can bring: the marker found or not, the response,
\* the stdout of its code blocks.
Markers == {None, <<>>, <<"a">>}
Responses == SeqsUpTo(Words, MaxWords)
BlockStdouts == SeqsUpTo({<<>>, <<" ">>, <<"1">>}, MaxBlocks)
Turns == [marker : Markers, response : Responses, stdouts : BlockStdouts]

\* Whether `final_answer is not None` after lines 206-216, over every turn.
Founds == {FinalAnswerDecision(t.marker, t.response, t.stdouts).found : t \in Turns}

\* ----------------------------------- rlm_service.py: rlm_worker (driver)
WorkerUnchanged ==
    /\ UNCHANGED <<admVars, now, pureVars, reqVars, taken, logVars>>
    /\ UNCHANGED <<cancellation_requested, start_time>>

\* Lines 93-94: the completion context is entered, the prompt set up.
WorkerEnter(r) ==
    /\ dpc[r] = "enter"
    /\ dpc' = [dpc EXCEPT ![r] = "check"]
    /\ iter' = [iter EXCEPT ![r] = 0]
    /\ WorkerUnchanged
    /\ UNCHANGED <<message_queue, thread_done, emitted, calls, raised>>

\* Lines 93-94 raise.
WorkerEnterRaise(r) ==
    /\ dpc[r] = "enter"
    /\ dpc' = [dpc EXCEPT ![r] = "except"]
    /\ WorkerUnchanged
    /\ raised' = [raised EXCEPT ![r] = @ + 1]
    /\ UNCHANGED <<message_queue, thread_done, iter, emitted, calls>>

IterCheckIgnoresCancel(r) ==
    /\ dpc[r] = "check"
    /\ IF iter[r] >= max_iterations
       THEN /\ dpc' = [dpc EXCEPT ![r] = "ctx_exit"]
            /\ UNCHANGED <<message_queue, emitted, calls>>
       ELSE /\ Put(r, IF show_thinking[r] THEN "status" ELSE "brief_status",
                   "", iter[r] + 1)
            /\ dpc' = [dpc EXCEPT ![r] = "call"]
            /\ calls' = [calls EXCEPT ![r] = @ + 1]
    /\ WorkerUnchanged
    /\ UNCHANGED <<thread_done, iter, raised>>

IterCheckZeroBased(r) ==
    /\ dpc[r] = "check"
    /\ IF iter[r] >= max_iterations
       THEN /\ dpc' = [dpc EXCEPT ![r] = "ctx_exit"]
            /\ UNCHANGED <<message_queue, emitted, calls>>
       ELSE IF cancellation_requested[r]
       THEN /\ Put(r, "error", "cancelled", 0)
            /\ dpc' = [dpc EXCEPT ![r] = "ctx_exit"]
            /\ UNCHANGED calls
       ELSE IF Expired(r)
       THEN /\ Put(r, "error", "timeout", 0)
            /\ dpc' = [dpc EXCEPT ![r] = "ctx_exit"]
            /\ UNCHANGED calls
       ELSE /\ Put(r, IF show_thinking[r] THEN "status" ELSE "brief_status",
                   "", iter[r])
            /\ dpc' = [dpc EXCEPT ![r] = "call"]
            /\ calls' = [calls EXCEPT ![r] = @ + 1]
    /\ WorkerUnchanged
    /\ UNCHANGED <<thread_done, iter, raised>>

IterCheckTimeFirst(r) ==
    /\ dpc[r] = "check"
    /\ IF iter[r] >= max_iterations
       THEN /\ dpc' = [dpc EXCEPT ![r] = "ctx_exit"]
            /\ UNCHANGED <<message_queue, emitted, calls>>
       ELSE IF Expired(r)
       THEN /\ Put(r, "error", "timeout", 0)
            /\ dpc' = [dpc EXCEPT ![r] = "ctx_exit"]
            /\ UNCHANGED calls
       ELSE IF cancellation_requested[r]
       THEN /\ Put(r, "error", "cancelled", 0)
            /\ dpc' = [dpc EXCEPT ![r] = "ctx_exit"]
            /\ UNCHANGED calls
       ELSE /\ Put(r, IF show_thinking[r] THEN "status" ELSE "brief_status",
                   "", iter[r] + 1)
            /\ dpc' = [dpc EXCEPT ![r] = "call"]
            /\ calls' = [calls EXCEPT ![r] = @ + 1]
    /\ WorkerUnchanged
    /\ UNCHANGED <<thread_done, iter, raised>>

\* Line 95 and lines 96-135: the head of one iteration, up to the call of
\* _completion_turn; the for loop ends when i reaches max_iterations.
IterCheck(r) ==
    /\ dpc[r] = "check"
    /\ IF iter[r] >= max_iterations
       THEN /\ dpc' = [dpc EXCEPT ![r] = "ctx_exit"]
            /\ UNCHANGED <<message_queue, emitted, calls>>
       ELSE IF cancellation_requested[r]
       THEN /\ Put(r, "error", "cancelled", 0)
            /\ dpc' = [dpc EXCEPT ![r] = "ctx_exit"]
            /\ UNCHANGED calls
       ELSE IF Expired(r)
       THEN /\ Put(r, "error", "timeout", 0)
            /\ dpc' = [dpc EXCEPT ![r] = "ctx_exit"]
            /\ UNCHANGED calls
       ELSE /\ Put(r, IF show_thinking[r] THEN "status" ELSE "brief_status",
                   "", iter[r] + 1)
            /\ dpc' = [dpc EXCEPT ![r] = "call"]
            /\ calls' = [calls EXCEPT ![r] = @ + 1]
    /\ WorkerUnchanged
    /\ UNCHANGED <<thread_done, iter, raised>>

CallReturnNoUpdate(r) ==
    /\ dpc[r] = "call"
    /\ dpc' = [dpc EXCEPT ![r] = "decide"]
    /\ WorkerUnchanged
    /\ UNCHANGED <<message_queue, emitted, thread_done, iter, calls, raised>>

\* Line 137 returns and lines 143-204 render and put the update event.
CallReturn(r) ==
    /\ dpc[r] = "call"
    /\ Put(r, "update", "", iter[r] + 1)
    /\ dpc' = [dpc EXCEPT ![r] = "decide"]
    /\ WorkerUnchanged
    /\ UNCHANGED <<thread_done, iter, calls, raised>>

\* _completion_turn, or the sandbox probe of lines 153-168, raises.
CallRaise(r) ==
    /\ dpc[r] = "call"
    /\ dpc' = [dpc EXCEPT ![r] = "except"]
    /\ WorkerUnchanged
    /\ raised' = [raised EXCEPT ![r] = @ + 1]
    /\ UNCHANGED <<message_queue, thread_done, iter, emitted, calls>>

DecideNoReturn(r) ==
    /\ dpc[r] = "decide"
    /\ \E found \in BOOLEAN :
          /\ IF found
             THEN Put(r, "final", "", iter[r] + 1)
             ELSE UNCHANGED <<message_queue, emitted>>
          /\ iter' = [iter EXCEPT ![r] = @ + 1]
          /\ dpc' = [dpc EXCEPT ![r] = "check"]
    /\ UNCHANGED <<admVars, now, pureVars, reqVars, taken, logVars>>
    /\ UNCHANGED <<cancellation_requested, start_time>>
    /\ UNCHANGED <<thread_done, calls, raised>>

\* Lines 206-236: the final-answer decision of the iteration, on what the
\* backend turn brought.
Decide(r) ==
    /\ dpc[r] = "decide"
    /\ \E found \in Founds :
          IF found
          THEN /\ Put(r, "final", "", iter[r] + 1)
               /\ dpc' = [dpc EXCEPT ![r] = "ctx_exit"]
               /\ UNCHANGED iter
          ELSE /\ iter' = [iter EXCEPT ![r] = @ + 1]
               /\ dpc' = [dpc EXCEPT ![r] = "check"]
               /\ UNCHANGED <<message_queue, emitted>>
    /\ WorkerUnchanged
    /\ UNCHANGED <<thread_done, calls, raised>>

\* find_final_answer, the probe of line 228 or format_iteration raises.
DecideRaise(r) ==
    /\ dpc[r] = "decide"
    /\ dpc' = [dpc EXCEPT ![r] = "except"]
    /\ WorkerUnchanged
    /\ raised' = [raised EXCEPT ![r] = @ + 1]
    /\ UNCHANGED <<message_queue, thread_done, iter, emitted, calls>>

CtxExitSkipsFinally(r) ==
    /\ dpc[r] = "ctx_exit"
    /\ dpc' = [dpc EXCEPT ![r] = "done"]
    /\ WorkerUnchanged
    /\ UNCHANGED <<message_queue, thread_done, iter, emitted, calls, raised>>

\* The with statement of line 93 is left after a return or the end of the
\* loop: the completion context's __exit__ runs.
CtxExit(r) ==
    /\ dpc[r] = "ctx_exit"
    /\ dpc' = [dpc EXCEPT ![r] = "finally"]
    /\ WorkerUnchanged
    /\ UNCHANGED <<message_queue, thread_done, iter, emitted, calls, raised>>

\* The completion context's __exit__ raises.
CtxExitRaise(r) ==
    /\ dpc[r] = "ctx_exit"
    /\ dpc' = [dpc EXCEPT ![r] = "except"]
    /\ WorkerUnchanged
    /\ raised' = [raised EXCEPT ![r] = @ + 1]
    /\ UNCHANGED <<message_queue, thread_done, iter, emitted, calls>>

ExceptPutRetry(r) ==
    /\ dpc[r] = "except"
    /\ Put(r, "error", "worker", 0)
    /\ dpc' = [dpc EXCEPT ![r] = "enter"]
    /\ WorkerUnchanged
    /\ UNCHANGED <<thread_done, iter, calls, raised>>

\* Lines 237-239: the except clause puts the worker error event.
ExceptPut(r) ==
    /\ dpc[r] = "except"
    /\ Put(r, "error", "worker", 0)
    /\ dpc' = [dpc EXCEPT ![r] = "finally"]
    /\ WorkerUnchanged
    /\ UNCHANGED <<thread_done, iter, calls, raised>>

SetDoneShared(r) ==
    /\ dpc[r] = "finally"
    /\ thread_done' = [q \in Req |-> TRUE]
    /\ dpc' = [dpc EXCEPT ![r] = "done"]
    /\ WorkerUnchanged
    /\ UNCHANGED <<message_queue, iter, emitted, calls, raised>>

\* Lines 240-241: finally: thread_done.set().
SetDone(r) ==
    /\ dpc[r] = "finally"
    /\ thread_done' = [thread_done EXCEPT ![r] = TRUE]
    /\ dpc' = [dpc EXCEPT ![r] = "done"]
    /\ WorkerUnchanged
    /\ UNCHANGED <<message_queue, iter, emitted, calls, raised>>

\* time.time() advances.
Tick ==
    /\ now < MaxTime
    /\ now' = now + 1
    /\ UNCHANGED <<admVars, reqVars, bridgeVars, driverVars, taken, logVars, pureVars>>

\* The clean-up is applied to the current final answer.
Normalize ==
    /\ Len(norm_trace) <= 2
    /\ final_answer' = NormalizeFinalAnswer(final_answer, environment)
    /\ norm_trace' = Append(norm_trace, final_answer')
    /\ sandbox_calls' = Resolve(CleanUp(final_answer), environment).calls
    /\ UNCHANGED <<admVars, now, reqVars, bridgeVars, driverVars, taken, logVars,
                   environment, decideVars, renderVars, authVars, sessionVars,
                   filterVars>>

NoTurn == [marker |-> None, response |-> <<>>, stdouts |-> <<>>]

\* final_answer is not assigned yet.
NoDecision == [found |-> FALSE, source |-> "pending", value |-> <<>>]

\* Lines 206-216 run on turn.
DecideFinal ==
    /\ decision = NoDecision
    /\ decision' = FinalAnswerDecision(turn.marker, turn.response, turn.stdouts)
    /\ UNCHANGED <<admVars, now, reqVars, bridgeVars, driverVars, taken, logVars,
                   final_answer, environment, norm_trace, turn, sandbox_calls,
                   renderVars, authVars, sessionVars, filterVars>>

\* No code block is being rendered.
NoBlock == [form |-> "empty", name |-> <<>>, stdout |-> <<>>, stderr |-> <<>>,
            raises |-> FALSE]

NoRender == [shown |-> FALSE, result |-> <<>>, escaped |-> FALSE, update |-> FALSE]

\* Lines 171-204 run on block: the block's part of the update, and whether
\* line 204 puts the update.
RenderBlock ==
    /\ rendered = NoRender
    /\ block # NoBlock
    /\ rendered' = Render(block, environment)
    /\ UNCHANGED <<admVars, now, reqVars, bridgeVars, driverVars, taken, logVars,
                   final_answer, environment, norm_trace, sandbox_calls,
                   decideVars, block, authVars, sessionVars, filterVars>>

PureIdle ==
    /\ final_answer = <<>>
    /\ environment = NoEnvironment
    /\ norm_trace = <<>>
    /\ turn = NoTurn
    /\ decision = NoDecision
    /\ sandbox_calls = <<>>
    /\ block = NoBlock
    /\ rendered = NoRender

\* ------------------------ llm_service.py: filter_images_keep_latest
MaxMsgs == 3

\* A message is a dict: a function from its keys to their values.
With(m, k, v) == [x \in DOMAIN m \cup {k} |-> IF x = k THEN v ELSE m[x]]

\* dict.pop(k, None) for the keys of ks.
Without(m, ks) == [x \in DOMAIN m \ ks |-> m[x]]

TextMessages == {[x \in {"content"} |-> c] : c \in {"c1", "c2"}}

\* Messages without an image key, with an empty image, or with an image, and
\* with or without an image_type.
Messages ==
    LET imaged == TextMessages \cup {With(m, "image", i) : m \in TextMessages, i \in {"", "img"}}
    IN  imaged \cup {With(m, "image_type", "png") : m \in imaged}

\* msg.get('image') is truthy.
HasImage(m) == "image" \in DOMAIN m /\ ~Falsy(m["image"])

ImageIndexes(msgs) == {i \in 1..Len(msgs) : HasImage(msgs[i])}

\* last_image_idx = None; the indexes of the model start at 1.
NoIndex == 0

\* Lines 33-37: the index of the last message with an image, or None.
last_image_idx(msgs) ==
    IF ImageIndexes(msgs) = {} THEN NoIndex
    ELSE CHOOSE i \in ImageIndexes(msgs) : \A j \in ImageIndexes(msgs) : j <= i

filter_images_pop_image_only(msgs) ==
    LET last == last_image_idx(msgs)
    IN  IF last = NoIndex
        THEN [messages |-> msgs, filtered |-> msgs]
        ELSE [messages |-> msgs,
              filtered |-> [i \in 1..Len(msgs) |->
                               IF HasImage(msgs[i]) /\ i # last
                               THEN Without(msgs[i], {"image"})
                               ELSE msgs[i]]]

\* Lines 33-54: the list given, as the call leaves it (the pops are made on
\* msg.copy()), and the list returned.
filter_images_keep_latest(msgs) ==
    LET last == last_image_idx(msgs)
    IN  IF last = NoIndex
        THEN [messages |-> msgs, filtered |-> msgs]
        ELSE [messages |-> msgs,
              filtered |-> [i \in 1..Len(msgs) |->
                               IF HasImage(msgs[i]) /\ i # last
                               THEN Without(msgs[i], {"image", "image_type"})
                               ELSE msgs[i]]]

NoFilter ==
    /\ messages = <<>>
    /\ original = <<>>
    /\ filter_trace = <<>>

\* The filter is applied to the list, then to what it returned.
ApplyFilter ==
    /\ Len(filter_trace) < 2
    /\ LET first == filter_trace = <<>>
           res == filter_images_keep_latest(IF first THEN messages
                                            ELSE filter_trace[Len(filter_trace)])
       IN  /\ filter_trace' = Append(filter_trace, res.filtered)
           /\ messages' = IF first THEN res.messages ELSE messages
    /\ UNCHANGED original
    /\ UNCHANGED <<admVars, now, reqVars, bridgeVars, driverVars, taken, logVars,
                   final_answer, environment, norm_trace, sandbox_calls, decideVars,
                   renderVars, authVars, sessionVars>>

\* state.py line 18 at import.
NoSessions ==
    /\ page_loads = NoPageLoads
    /\ last_tracked = [s \in SessionIds |-> Never]
    /\ active_count = 0

SessionUnchanged ==
    UNCHANGED <<admVars, now, reqVars, bridgeVars, driverVars, taken, logVars,
                final_answer, environment, norm_trace, sandbox_calls, decideVars,
                renderVars, authVars, filterVars>>

\* chat.py lines 56-57: a chat request that carries a session id tracks it.
TrackSession(sid) ==
    /\ page_loads' = track_session(page_loads, sid, now)
    /\ last_tracked' = [last_tracked EXCEPT ![sid] = now]
    /\ UNCHANGED active_count
    /\ SessionUnchanged

\* state.py lines 75-90, called on its own (the statistics of the server).
GetActiveSessions ==
    /\ page_loads' = purge_sessions(page_loads, now)
    /\ active_count' = Cardinality(DOMAIN page_loads')
    /\ UNCHANGED last_tracked
    /\ SessionUnchanged

\* config.py lines 109-129: the page load of session sid (a new uuid4 is an
\* id that was never tracked).
CreateSession(sid) ==
    /\ page_loads' = purge_sessions(track_session(page_loads, sid, now), now)
    /\ last_tracked' = [last_tracked EXCEPT ![sid] = now]
    /\ active_count' = Cardinality(DOMAIN page_loads')
    /\ SessionUnchanged

\* No passcode is configured and the requests carry none.
NoAuth ==
    /\ RLM_PASSCODE = ""
    /\ rlm_passcode = [r \in Req |-> None]

InitReq ==
    /\ cpc = [r \in Req |-> "new"]
    /\ dpc = [r \in Req |-> "none"]
    /\ iter = [r \in Req |-> 0]
    /\ message_queue = [r \in Req |-> <<>>]
    /\ thread_done = [r \in Req |-> FALSE]
    /\ cancellation_requested = [r \in Req |-> FALSE]
    /\ start_time = [r \in Req |-> 0]
    /\ frames = [r \in Req |-> <<>>]
    /\ emitted = [r \in Req |-> <<>>]
    /\ taken = [r \in Req |-> <<>>]
    /\ calls = [r \in Req |-> 0]
    /\ raised = [r \in Req |-> 0]
    /\ assistant_full_content = [r \in Req |-> <<>>]
    /\ chat_full_content = [r \in Req |-> <<>>]
    /\ logged = [r \in Req |-> <<>>]
    /\ outcome = [r \in Req |-> "none"]
    /\ exit = [r \in Req |-> "open"]
    /\ acq = [r \in Req |-> NoAcq]
    /\ pre = [r \in Req |-> [gen |-> 0, rlm |-> 0]]

AdmInit ==
    /\ HAS_RLM = TRUE
    /\ MAX_CONCURRENT_RLM \in 1..MaxConcurrentCfg
    /\ active_generations = 0
    /\ active_rlm_generations = 0
    /\ now = 0
    /\ show_thinking = [r \in Req |-> TRUE]
    /\ InitReq
    /\ NoSessions
    /\ NoFilter
    /\ NoAuth
    /\ PureIdle

AdmNext ==
    \E r \in Req :
        \/ Start(r)
        \/ RejResume(r)
        \/ RejClose(r)
        \/ CallerClose(r)
        \/ StreamFinish(r)
        \/ StreamRaise(r)

SpecAdm == AdmInit /\ [][AdmNext]_vars

\* Requests of every kind (image, standard, agent) share active_generations.
GenReq == {1, 2, 3}

GenNext ==
    \E r \in GenReq :
        \/ Start(r)
        \/ RejResume(r)
        \/ RejClose(r)
        \/ CallerClose(r)
        \/ StreamFinish(r)
        \/ StreamRaise(r)
        \/ ImageStart(r)
        \/ ImageGenerate(r)
        \/ ImageResult(r)
        \/ ImageEnd(r)
        \/ ImageClose(r)
        \/ ImageCancel(r)
        \/ StdStart(r)
        \/ StdChunk(r)
        \/ StdResume(r)
        \/ StdFinish(r)
        \/ StdRaise(r)
        \/ StdClose(r)

SpecGen == AdmInit /\ [][GenNext]_vars

\* One request, submitted while other streams may hold slots.
BridgeReq == {1}

Init ==
    /\ HAS_RLM \in BOOLEAN
    /\ MAX_CONCURRENT_RLM \in 1..MaxConcurrentCfg
    /\ active_rlm_generations \in 0..MAX_CONCURRENT_RLM
    /\ active_generations = active_rlm_generations
    /\ now = 0
    /\ \E b \in BOOLEAN : show_thinking = [r \in Req |-> b]
    /\ InitReq
    /\ NoSessions
    /\ NoFilter
    /\ NoAuth
    /\ PureIdle

Next ==
    \/ Tick
    \/ \E r \in BridgeReq :
        \/ RlmMissing(r)
        \/ RlmMissingEnd(r)
        \/ Start(r)
        \/ RejResume(r)
        \/ RejClose(r)
        \/ CallerClose(r)
        \/ Prepare(r)
        \/ PrepareRaise(r)
        \/ LoopTest(r)
        \/ Get(r)
        \/ Resume(r)
        \/ HandleEmpty(r)
        \/ GraceEnd(r)
        \/ SleepEnd(r)
        \/ TimeoutBreak(r)
        \/ Cancel(r)
        \/ WorkerEnter(r)
        \/ WorkerEnterRaise(r)
        \/ IterCheck(r)
        \/ CallReturn(r)
        \/ CallRaise(r)
        \/ Decide(r)
        \/ DecideRaise(r)
        \/ CtxExit(r)
        \/ CtxExitRaise(r)
        \/ ExceptPut(r)
        \/ SetDone(r)

Spec == Init /\ [][Next]_vars

\* A step of the rlm_worker thread of request r.
WorkerStep(r) ==
    \/ WorkerEnter(r)
    \/ WorkerEnterRaise(r)
    \/ IterCheck(r)
    \/ CallReturn(r)
    \/ CallRaise(r)
    \/ Decide(r)
    \/ DecideRaise(r)
    \/ CtxExit(r)
    \/ CtxExitRaise(r)
    \/ ExceptPut(r)
    \/ SetDone(r)

\* rlm_worker is a daemon thread of its own (lines 244-245): the operating
\* system keeps scheduling it whatever the event loop does, and its blocking
\* calls (the backend call, the sandbox) are assumed to return or raise.
SpecFair == Init /\ [][Next]_vars /\ \A r \in BridgeReq : WF_vars(WorkerStep(r))

\* Two agent requests competing for one agent slot, followed along the paths on
\* which nothing raises and no caller disconnects.
PoolReq == {1, 2}

PoolInit ==
    /\ HAS_RLM = TRUE
    /\ MAX_CONCURRENT_RLM = 1
    /\ active_generations = 0
    /\ active_rlm_generations = 0
    /\ now = 0
    /\ show_thinking = [r \in Req |-> FALSE]
    /\ InitReq
    /\ NoSessions
    /\ NoFilter
    /\ NoAuth
    /\ PureIdle

PoolNext ==
    \/ Tick
    \/ \E r \in PoolReq :
        \/ Start(r)
        \/ RejResume(r)
        \/ RejClose(r)
        \/ Prepare(r)
        \/ LoopTest(r)
        \/ Get(r)
        \/ Resume(r)
        \/ HandleEmpty(r)
        \/ GraceEnd(r)
        \/ SleepEnd(r)
        \/ TimeoutBreak(r)
        \/ WorkerEnter(r)
        \/ IterCheck(r)
        \/ CallReturn(r)
        \/ Decide(r)
        \/ CtxExit(r)
        \/ SetDone(r)

SpecPool == PoolInit /\ [][PoolNext]_vars

\* time.time() keeps advancing while a consumer polls an empty queue before
\* its deadline, also past the horizon MaxTime of Tick.
ClockRuns ==
    /\ now >= MaxTime
    /\ \E r \in BridgeReq :
          /\ cpc[r] \in {"loop", "get", "empty", "sleep"}
          /\ ~Expired(r)
    /\ now' = now + 1
    /\ UNCHANGED <<admVars, reqVars, bridgeVars, driverVars, taken, logVars, pureVars>>

\* A step of the event loop for request r: the generators chat_stream and
\* stream_rlm_completion run to their next yield or await, and the caller
\* asks for the next frame.
ConsumerStep(r) ==
    \/ RejResume(r)
    \/ Prepare(r)
    \/ LoopTest(r)
    \/ Get(r)
    \/ Resume(r)
    \/ HandleEmpty(r)
    \/ GraceEnd(r)
    \/ SleepEnd(r)
    \/ TimeoutBreak(r)

LiveNext == Next \/ ClockRuns

\* The event loop keeps running the request's generators and the clock keeps
\* advancing; nothing is assumed of the worker thread, whose backend call may
\* never return.
SpecLive ==
    /\ Init
    /\ [][LiveNext]_vars
    /\ WF_vars(Tick \/ ClockRuns)
    /\ \A r \in BridgeReq : WF_vars(ConsumerStep(r))

\* One agent request with any passcode, against any configured passcode.
AuthInit ==
    /\ HAS_RLM \in BOOLEAN
    /\ MAX_CONCURRENT_RLM = 1
    /\ active_rlm_generations \in 0..MAX_CONCURRENT_RLM
    /\ active_generations = active_rlm_generations
    /\ now = 0
    /\ show_thinking = [r \in Req |-> FALSE]
    /\ InitReq
    /\ NoSessions
    /\ NoFilter
    /\ PureIdle
    /\ RLM_PASSCODE \in Passcodes \ {None}
    /\ \E given \in Passcodes : rlm_passcode = [r \in Req |-> given]

AuthNext ==
    \/ Next
    \/ \E r \in BridgeReq :
        \/ AuthMissing(r)
        \/ AuthInvalid(r)
        \/ AuthEnd(r)

SpecAuth == AuthInit /\ [][AuthNext]_vars

\* Page loads and chat requests of the sessions of SessionIds, as time passes.
SessionInit ==
    /\ HAS_RLM = TRUE
    /\ MAX_CONCURRENT_RLM = 1
    /\ active_generations = 0
    /\ active_rlm_generations = 0
    /\ now = 0
    /\ show_thinking = [r \in Req |-> TRUE]
    /\ InitReq
    /\ NoSessions
    /\ NoFilter
    /\ NoAuth
    /\ PureIdle

SessionNext ==
    \/ Tick
    \/ GetActiveSessions
    \/ \E sid \in SessionIds :
        \/ TrackSession(sid)
        \/ CreateSession(sid)

SpecSession == SessionInit /\ [][SessionNext]_vars

\* The image filter, for every conversation of at most MaxMsgs messages.
FilterInit ==
    /\ HAS_RLM = TRUE
    /\ MAX_CONCURRENT_RLM = 1
    /\ active_generations = 0
    /\ active_rlm_generations = 0
    /\ now = 0
    /\ show_thinking = [r \in Req |-> TRUE]
    /\ InitReq
    /\ NoSessions
    /\ NoAuth
    /\ PureIdle
    /\ messages \in SeqsUpTo(Messages, MaxMsgs)
    /\ original = messages
    /\ filter_trace = <<>>

FilterNext == ApplyFilter

SpecFilter == FilterInit /\ [][FilterNext]_vars

\* The clean-up of a final answer, for every raw answer of at most MaxLen
\* characters and every sandbox.
NormInit ==
    /\ HAS_RLM = TRUE
    /\ MAX_CONCURRENT_RLM = 1
    /\ active_generations = 0
    /\ active_rlm_generations = 0
    /\ now = 0
    /\ show_thinking = [r \in Req |-> TRUE]
    /\ InitReq
    /\ NoSessions
    /\ NoFilter
    /\ NoAuth
    /\ final_answer \in Strings(MaxLen)
    /\ environment \in Environments
    /\ norm_trace = <<final_answer>>
    /\ turn = NoTurn
    /\ decision = NoDecision
    /\ sandbox_calls = <<>>
    /\ block = NoBlock
    /\ rendered = NoRender

NormNext == Normalize

SpecNorm == NormInit /\ [][NormNext]_vars

\* The rendering of a code block, for every block of Blocks and every sandbox.
RenderInit ==
    /\ HAS_RLM = TRUE
    /\ MAX_CONCURRENT_RLM = 1
    /\ active_generations = 0
    /\ active_rlm_generations = 0
    /\ now = 0
    /\ show_thinking = [r \in Req |-> TRUE]
    /\ InitReq
    /\ NoSessions
    /\ NoFilter
    /\ NoAuth
    /\ final_answer = <<>>
    /\ environment \in Environments
    /\ norm_trace = <<>>
    /\ turn = NoTurn
    /\ decision = NoDecision
    /\ sandbox_calls = <<>>
    /\ block \in Blocks \ {NoBlock}
    /\ rendered = NoRender

RenderNext == RenderBlock

SpecRender == RenderInit /\ [][RenderNext]_vars

\* The final-answer decision, for every backend turn of Turns.
DecideInit ==
    /\ HAS_RLM = TRUE
    /\ MAX_CONCURRENT_RLM = 1
    /\ active_generations = 0
    /\ active_rlm_generations = 0
    /\ now = 0
    /\ show_thinking = [r \in Req |-> TRUE]
    /\ InitReq
    /\ NoSessions
    /\ NoFilter
    /\ NoAuth
    /\ final_answer = <<>>
    /\ environment = NoEnvironment
    /\ norm_trace = <<>>
    /\ turn \in Turns
    /\ decision = NoDecision
    /\ sandbox_calls = <<>>
    /\ block = NoBlock
    /\ rendered = NoRender

DecideNext == DecideFinal

SpecDecide == DecideInit /\ [][DecideNext]_vars

\* ================================================================ claims
Last(s) == s[Len(s)]

IsPrefix(s, t) ==
    /\ Len(s) <= Len(t)
    /\ \A k \in 1..Len(s) : s[k] = t[k]

Admitted == {r \in Req : outcome[r] = "admitted"}

Rejected == {r \in Req : outcome[r] = "rejected"}

OpenAdmitted == {r \in Admitted : cpc[r] # "closed"}

\* C1: in every reachable state of concurrently running agent requests the
\* counter of active agent loops is at most MAX_CONCURRENT_RLM.
C1_CapacityBound == active_rlm_generations <= MAX_CONCURRENT_RLM

\* The limit is reached and a further request was tested against it.
C1_Witness ==
    /\ active_rlm_generations = MAX_CONCURRENT_RLM
    /\ Rejected # {}

\* C2: a request is rejected exactly when the counter has reached the limit
\* at its capacity check; the counter is the number of admitted streams
\* still open, so a slot freed by a closed stream admits a later request;
\* and when all NReq requests have started and no admitted one has closed,
\* exactly NReq - MAX_CONCURRENT_RLM of them are rejected.
C2_Admission ==
    /\ \A r \in Req : outcome[r] # "none" =>
          (outcome[r] = "rejected" <=> pre[r].rlm >= MAX_CONCURRENT_RLM)
    /\ active_rlm_generations = Cardinality(OpenAdmitted)
    /\ ((\A r \in Req : outcome[r] # "none") /\ OpenAdmitted = Admitted) =>
          Cardinality(Rejected) =
             IF NReq > MAX_CONCURRENT_RLM THEN NReq - MAX_CONCURRENT_RLM ELSE 0

\* Scenario D: limit 1, the first request admitted, the second rejected,
\* the first closed, the third admitted.
C2_Witness ==
    /\ MAX_CONCURRENT_RLM = 1
    /\ outcome[1] = "admitted" /\ cpc[1] = "closed"
    /\ outcome[2] = "rejected"
    /\ outcome[3] = "admitted" /\ cpc[3] # "closed"

\* C3: an admitted request decrements each counter exactly once, when its
\* stream closes, and both counters are then back at the values they had
\* before the request, whatever way the stream ended.
C3_ReleaseOnce ==
    \A r \in BridgeReq : outcome[r] = "admitted" =>
        IF cpc[r] = "closed"
        THEN /\ acq[r].gen_dec = 1 /\ acq[r].rlm_dec = 1
             /\ active_generations = pre[r].gen
             /\ active_rlm_generations = pre[r].rlm
        ELSE /\ acq[r].gen_dec = 0 /\ acq[r].rlm_dec = 0
             /\ active_generations = pre[r].gen + 1
             /\ active_rlm_generations = pre[r].rlm + 1

HasEvent(r, type, why) ==
    \E k \in 1..Len(emitted[r]) : emitted[r][k].type = type /\ emitted[r][k].why = why

\* The caller closed the stream early, after frames of a running loop, with
\* other agent streams holding slots.
C3_Witness ==
    /\ outcome[1] = "admitted" /\ exit[1] = "caller_closed"
    /\ Len(frames[1]) >= 2
    /\ pre[1].rlm > 0

\* The other exit paths of C3; each is a reachable state of an admitted
\* request (TLC refutes its negation).
C3_ReachFinal == exit[1] = "drained" /\ HasEvent(1, "final", "")

C3_ReachDriverError == exit[1] = "drained" /\ HasEvent(1, "error", "timeout")

C3_ReachWorkerException == exit[1] = "drained" /\ HasEvent(1, "error", "worker")

C3_ReachConsumerTimeout == exit[1] = "timeout"

C3_ReachConsumerRaised == exit[1] = "consumer_raised"

C3_ReachCancelled == exit[1] = "cancelled"

\* C4 (as claimed): once the stream of a request rejected for capacity is
\* closed, active_generations is back at its value before the request.
C4_RejectedRestoresGenerations ==
    \A r \in BridgeReq : (outcome[r] = "rejected" /\ cpc[r] = "closed") =>
        active_generations = pre[r].gen

\* C5: the events the consumer has taken are a prefix of the events the
\* driver has put, in the same order, none taken twice.
C5_FifoPrefix ==
    \A r \in BridgeReq :
        /\ IsPrefix(taken[r], emitted[r])
        /\ \A j, k \in 1..Len(taken[r]) : j # k => taken[r][j] # taken[r][k]
        /\ emitted[r] = taken[r] \o message_queue[r]

\* Several events taken while later ones wait in the queue.
C5_Witness ==
    /\ Len(taken[1]) >= 2
    /\ Len(message_queue[1]) >= 2

ClosedByLoop(r) == exit[r] \in {"drained", "timeout"}

NoErrorEvent(r) ==
    \A k \in 1..Len(emitted[r]) : emitted[r][k].type # "error"

\* The driver ran every iteration, none gave a final answer, and neither a
\* timeout, a cancellation nor an exception occurred.
BudgetExhausted(r) ==
    /\ thread_done[r]
    /\ iter[r] = max_iterations
    /\ ~HasEvent(r, "error", "timeout")
    /\ ~HasEvent(r, "error", "cancelled")
    /\ ~HasEvent(r, "error", "worker")

\* C7 (as claimed): a run that exhausts max_iterations without a final
\* answer ends with an error event stating so, and the stream that delivers
\* the whole run ends with that error frame and no final frame.
C7_BudgetExhaustedError ==
    \A r \in BridgeReq : BudgetExhausted(r) =>
        /\ Len(emitted[r]) > 0
        /\ Last(emitted[r]).type = "error"
        /\ exit[r] = "drained" =>
              (Last(frames[r]).kind = "error" /\ ~HasEvent(r, "final", ""))

\* C8: the driver stops at the first iteration that yields a final answer:
\* one final event, for the iteration in progress, no completion call and no
\* iteration start after it.
C8_StopsAtFirstFinal ==
    \A r \in BridgeReq : \A k \in 1..Len(emitted[r]) :
        emitted[r][k].type = "final" =>
            /\ \A j \in 1..Len(emitted[r]) : emitted[r][j].type = "final" => j = k
            /\ \A j \in (k + 1)..Len(emitted[r]) :
                  emitted[r][j].type \notin {"status", "brief_status", "update"}
            /\ calls[r] = emitted[r][k].n
            /\ iter[r] + 1 = emitted[r][k].n
            /\ dpc[r] \in {"ctx_exit", "except", "finally", "done"}

\* Scenario A: a final answer on iteration 0 (announced as iteration 1), the
\* driver finished, one completion call made although more were allowed.
C8_Witness ==
    /\ dpc[1] = "done"
    /\ \E k \in 1..Len(emitted[1]) :
          emitted[1][k].type = "final" /\ emitted[1][k].n = 1
    /\ calls[1] = 1
    /\ max_iterations > 1

\* C9 (as claimed): an error frame is the last frame of its stream.
C9_ErrorFrameTerminal ==
    \A r \in BridgeReq : \A k \in 1..Len(frames[r]) :
        frames[r][k].kind = "error" => k = Len(frames[r])

\* C10: on its own timeout the consumer sets the cancellation flag before it
\* waits, the grace wait ends without any step of the driver, the timeout
\* error frame follows it, and the stream closed on timeout ends with that
\* frame.
C10_ConsumerTimeout ==
    \A r \in BridgeReq :
        /\ cpc[r] \in {"grace", "y_timeout"} =>
              (cancellation_requested[r] /\ Expired(r))
        /\ cpc[r] = "grace" => ENABLED GraceEnd(r)
        /\ (cpc[r] = "y_timeout" \/ exit[r] = "timeout") =>
              Last(frames[r]) = Frame("error", "timeout")
        /\ cpc[r] = "y_timeout" => ENABLED TimeoutBreak(r)

\* Scenario C: the stream is closed on timeout while the driver is still
\* blocked in its first backend call and thread_done is not set.
C10_Witness ==
    /\ exit[1] = "timeout"
    /\ dpc[1] = "call"
    /\ ~thread_done[1]
    /\ message_queue[1] = <<>>

\* The positions of the worker error events among the events of r.
WorkerErrors(r) ==
    {k \in 1..Len(emitted[r]) :
        emitted[r][k].type = "error" /\ emitted[r][k].why = "worker"}

C12_BackendUnavailable ==
    /\ [](~HAS_RLM =>
            \A r \in BridgeReq :
                /\ frames[r] = (IF cpc[r] = "new"
                                THEN <<>> ELSE <<Frame("error", "rlm_missing")>>)
                /\ dpc[r] = "none"
                /\ emitted[r] = <<>>
                /\ message_queue[r] = <<>>
                /\ acq[r] = NoAcq
                /\ logged[r] = <<>>)
    /\ [][~HAS_RLM => UNCHANGED <<active_generations, active_rlm_generations>>]_vars

\* The backend is unavailable, the request got its error frame and its
\* stream ended, while other streams hold slots.
C12_Witness ==
    /\ ~HAS_RLM
    /\ exit[1] = "rlm_missing"
    /\ frames[1] = <<Frame("error", "rlm_missing")>>
    /\ active_generations = 2
    /\ active_rlm_generations = 2

\* C13: a request rejected for capacity gets the capacity error frame as its
\* only frame, starts no worker, and at every step of its handling leaves
\* active_rlm_generations at the value it had when the request arrived.
C13_RejectedRequest ==
    \A r \in BridgeReq :
        outcome[r] = "rejected" =>
            /\ frames[r] = <<Frame("error", "capacity")>>
            /\ dpc[r] = "none"
            /\ emitted[r] = <<>>
            /\ acq[r].rlm_inc = 0
            /\ acq[r].rlm_dec = 0
            /\ active_rlm_generations = pre[r].rlm
            /\ pre[r].rlm >= MAX_CONCURRENT_RLM

\* The handling of a rejected request is over: its caller asked for a further
\* frame and the stream ended, with both slots still held by other streams.
C13_Witness ==
    /\ outcome[1] = "rejected"
    /\ exit[1] = "rejected"
    /\ active_rlm_generations = 2
    /\ MAX_CONCURRENT_RLM = 2

\* The frame of kind `kind` that carries the content of msg was yielded.
Forwarded(r, msg, kind) ==
    \E j \in 1..Len(frames[r]) :
        /\ frames[r][j].kind = kind
        /\ frames[r][j].of = msg.type
        /\ frames[r][j].text = Content(msg)

\* The content of msg is part of the consumer's full-response buffer.
InBuffer(r, msg) ==
    \E j \in 1..Len(assistant_full_content[r]) :
        assistant_full_content[r][j] = Token(msg.type, msg.n)

\* The frame of the last event taken was yielded and the consumer has not
\* been resumed after that yield.
Pending(r) ==
    /\ taken[r] # <<>>
    /\ FrameOf(Last(taken[r]), show_thinking[r]) # <<>>
    /\ \/ cpc[r] = "y_msg"
       \/ exit[r] = "caller_closed" /\ Last(frames[r]).of # "timeout"

\* The consumer has run every statement of its dispatch for event k.
Processed(r, k) == k < Len(taken[r]) \/ ~Pending(r)

\* C14 (as claimed): every status and update event taken from the bridge is
\* forwarded as a content frame, in verbose and in non-verbose mode alike,
\* and its content is in the buffer only in verbose mode.
C14_StatusUpdateForwarded ==
    \A r \in BridgeReq : \A k \in 1..Len(taken[r]) :
        taken[r][k].type \in {"status", "update"} =>
            /\ Forwarded(r, taken[r][k], "content")
            /\ InBuffer(r, taken[r][k]) => show_thinking[r]

\* C14 (amended): a status or update event taken from the bridge is forwarded
\* as a content frame exactly when the stream is verbose, and once its
\* dispatch is over its content is in the buffer exactly when the stream is
\* verbose; in non-verbose mode the event is dropped.
C14_StatusUpdateVerboseOnly ==
    \A r \in BridgeReq : \A k \in 1..Len(taken[r]) :
        taken[r][k].type \in {"status", "update"} =>
            /\ Forwarded(r, taken[r][k], "content") <=> show_thinking[r]
            /\ InBuffer(r, taken[r][k]) => show_thinking[r]
            /\ (Processed(r, k) /\ show_thinking[r]) => InBuffer(r, taken[r][k])

\* A non-verbose stream drained after one iteration: the update event was
\* taken and dropped, the frames are the startup indicator, the heartbeat and
\* the final answer.
C14_Witness ==
    /\ ~show_thinking[1]
    /\ exit[1] = "drained"
    /\ Len(taken[1]) = 3
    /\ taken[1][2].type = "update"
    /\ Len(frames[1]) = 3
    /\ frames[1][2].kind = "rlm_status"
    /\ frames[1][3].of = "final"

\* The number of events of the given types the driver of r has emitted.
CountEvents(r, types) ==
    Cardinality({k \in 1..Len(emitted[r]) : emitted[r][k].type \in types})

\* C15: every brief_status event taken is forwarded as an rlm_status frame;
\* an rlm_status frame appears only on a non-verbose stream; and for each
\* iteration it begins the driver emits a status event on a verbose stream,
\* a brief_status event on a non-verbose one, never both.
C15_BriefStatus ==
    \A r \in BridgeReq :
        /\ \A k \in 1..Len(taken[r]) :
              taken[r][k].type = "brief_status" =>
                  Forwarded(r, taken[r][k], "rlm_status")
        /\ \A j \in 1..Len(frames[r]) :
              frames[r][j].kind = "rlm_status" =>
                  (~show_thinking[r] /\ frames[r][j].of = "brief_status")
        /\ CountEvents(r, {"status"}) = (IF show_thinking[r] THEN calls[r] ELSE 0)
        /\ CountEvents(r, {"brief_status"}) = (IF show_thinking[r] THEN 0 ELSE calls[r])

\* A non-verbose stream whose driver began two iterations: both heartbeats
\* were forwarded as rlm_status frames.
C15_Witness ==
    /\ ~show_thinking[1]
    /\ calls[1] = 2
    /\ \E i, j \in 1..Len(frames[1]) :
          /\ i < j
          /\ frames[1][i] = TextFrame("rlm_status", "brief_status",
                                      <<Token("brief_status", 1)>>)
          /\ frames[1][j] = TextFrame("rlm_status", "brief_status",
                                      <<Token("brief_status", 2)>>)

\* The events whose dispatch the consumer has completed.
ProcessedEvents(r) ==
    IF Pending(r) THEN SubSeq(taken[r], 1, Len(taken[r]) - 1) ELSE taken[r]

\* The per-kind accumulation policy: status and update content only on a
\* verbose stream, final content always (after the separator header on a
\* verbose stream), nothing for any other event.
RECURSIVE PolicyText(_, _)
PolicyText(evs, thinking) ==
    IF evs = <<>>
    THEN <<>>
    ELSE LET m == Head(evs)
             piece == CASE m.type \in {"status", "update"} ->
                               IF thinking THEN <<Token(m.type, m.n)>> ELSE <<>>
                        [] m.type = "final" ->
                               IF thinking
                               THEN <<final_header, Token("final", m.n)>>
                               ELSE <<Token("final", m.n)>>
                        [] OTHER -> <<>>
         IN  piece \o PolicyText(Tail(evs), thinking)

\* C16: a final event taken from the bridge is forwarded as a content frame
\* (its text is the separator header and the answer on a verbose stream, the
\* answer alone otherwise) and, once its dispatch is over, appended in that
\* form to the full-response buffer; the content of an error event is never
\* appended: the buffer is the policy text of the events dispatched.
C16_FinalAppended ==
    \A r \in BridgeReq :
        /\ \A k \in 1..Len(taken[r]) :
              taken[r][k].type = "final" =>
                  \E j \in 1..Len(frames[r]) :
                      /\ frames[r][j].kind = "content"
                      /\ frames[r][j].text =
                            (IF show_thinking[r]
                             THEN <<final_header, Token("final", taken[r][k].n)>>
                             ELSE <<Token("final", taken[r][k].n)>>)
        /\ \A j \in 1..Len(assistant_full_content[r]) :
              assistant_full_content[r][j][1] # "error"
        /\ assistant_full_content[r] = PolicyText(ProcessedEvents(r), show_thinking[r])

\* A verbose stream drained after a final answer in the first iteration.
C16_Witness ==
    /\ show_thinking[1]
    /\ exit[1] = "drained"
    /\ assistant_full_content[1] =
          <<Token("status", 1), Token("update", 1), final_header, Token("final", 1)>>

\* C17 (as claimed): when an agent stream ends through its consumer loop
\* (drained after a final answer or an error frame, or on timeout)
\* log_conversation has been called exactly once, and the response text it
\* received is the policy text of the events taken: status and update content
\* on a verbose stream, final content always, error content never, and
\* nothing else.
C17_LoggedPolicyText ==
    \A r \in BridgeReq :
        ClosedByLoop(r) =>
            logged[r] = <<PolicyText(taken[r], show_thinking[r])>>

\* C18 (as claimed): the clean-up of the final answer is idempotent: applied
\* to its own result, under the same sandbox, it returns that result.
C18_NormalizationIdempotent ==
    Len(norm_trace) = 3 => norm_trace[3] = norm_trace[2]

\* C19: once the consumer has closed the stream on timeout the slots of the
\* request are released, whether or not the driver has exited; the abandoned
\* driver begins no further iteration; and, its backend call returning, it
\* eventually reaches its finally clause and sets thread_done.
C19_AbandonedDriverExits ==
    /\ [](\A r \in BridgeReq :
            exit[r] = "timeout" =>
                /\ acq[r] = [gen_inc |-> 1, gen_dec |-> 1, rlm_inc |-> 1, rlm_dec |-> 1]
                /\ active_generations = pre[r].gen
                /\ active_rlm_generations = pre[r].rlm
                /\ cancellation_requested[r])
    /\ [][\A r \in BridgeReq : exit[r] = "timeout" => calls'[r] = calls[r]]_vars
    /\ \A r \in BridgeReq : (exit[r] = "timeout") ~> thread_done[r]

\* The stream was closed on timeout during the first backend call; the call
\* returned without a final answer, and at the head of its second iteration
\* the driver saw the flag, put the cancellation event nobody takes, and set
\* thread_done.
C19_Witness ==
    /\ exit[1] = "timeout"
    /\ thread_done[1]
    /\ calls[1] = 1
    /\ iter[1] = 1
    /\ taken[1] = <<>>
    /\ Len(message_queue[1]) = 3
    /\ Last(message_queue[1]).why = "cancelled"

\* The streams that hold a generation slot.
HoldingGeneration == {r \in Req : acq[r].gen_inc = 1 /\ acq[r].gen_dec = 0}

\* C20: acquiring a generation slot never fails.  A request of any kind can
\* start whatever the value of active_generations, every started stream has
\* incremented the counter once, a rejection is due to the agent-loop counter
\* alone, and an image or standard stream has decremented the counter once
\* when it is over (finished, raised, cancelled or closed by the caller) and
\* not before.
C20_GenerationSlots ==
    /\ \A r \in GenReq :
          /\ cpc[r] = "new" =>
                /\ ENABLED ImageStart(r)
                /\ ENABLED StdStart(r)
                /\ ENABLED Start(r)
          /\ acq[r].gen_inc = (IF cpc[r] = "new" THEN 0 ELSE 1)
          /\ outcome[r] = "rejected" => pre[r].rlm >= MAX_CONCURRENT_RLM
          /\ outcome[r] \in {"image", "standard"} =>
                /\ acq[r].gen_dec = (IF cpc[r] = "closed" THEN 1 ELSE 0)
                /\ \A j \in 1..Len(frames[r]) : frames[r][j].of # "capacity"
    /\ active_generations = Cardinality(HoldingGeneration)

\* An image stream closed by its caller, a standard stream that raised after
\* a chunk, and an agent stream that is still open: one slot is held.
C20_Witness ==
    /\ exit[1] = "image_closed"
    /\ exit[2] = "std_raised"
    /\ Len(frames[2]) = 1
    /\ outcome[3] = "admitted"
    /\ cpc[3] = "y_startup"
    /\ active_generations = 1

\* Three streams, one of each kind, hold a slot at once.
C20_AllHolding ==
    /\ outcome[1] = "image"
    /\ outcome[2] = "standard"
    /\ outcome[3] = "admitted"
    /\ active_generations = 3

\* Event k of r announces the start of iteration i.
IsStart(r, k, i) ==
    /\ emitted[r][k].type = (IF show_thinking[r] THEN "status" ELSE "brief_status")
    /\ emitted[r][k].n = i

\* Event k of r is the update of iteration i.
IsUpdate(r, k, i) == emitted[r][k].type = "update" /\ emitted[r][k].n = i

\* C21: when the driver has run every iteration without a final answer, it
\* has emitted, for i = 1..max_iterations in turn, the start event of
\* iteration i and then its update event; with no timeout, cancellation or
\* exception these 2 * max_iterations events are all it emits.
C21_BudgetRunEvents ==
    \A r \in BridgeReq :
        iter[r] = max_iterations =>
            /\ Len(emitted[r]) >= 2 * max_iterations
            /\ \A i \in 1..max_iterations :
                  /\ IsStart(r, 2 * i - 1, i)
                  /\ IsUpdate(r, 2 * i, i)
            /\ calls[r] = max_iterations
            /\ NoErrorEvent(r) => Len(emitted[r]) = 2 * max_iterations

\* The driver ran out of iterations and set thread_done, with no error event.
C21_Witness ==
    /\ BudgetExhausted(1)
    /\ NoErrorEvent(1)
    /\ raised[1] = 0
    /\ Len(emitted[1]) = 2 * max_iterations
    /\ dpc[1] = "done"

\* The positions among the first k events of r that announce an iteration.
StartsUpTo(r, k) ==
    {j \in 1..k : emitted[r][j].type \in {"status", "brief_status"}}

\* C22: the iterations announced by one driver run are numbered 1, 2, ..., k
\* in that order, each once, with k the number of backend calls begun and
\* k <= max_iterations; the update event of an iteration directly follows its
\* start event, and a final event directly follows the update event of its
\* iteration.
C22_IterationOrder ==
    \A r \in BridgeReq :
        /\ calls[r] <= max_iterations
        /\ Cardinality(StartsUpTo(r, Len(emitted[r]))) = calls[r]
        /\ \A k \in 1..Len(emitted[r]) :
              LET ev == emitted[r][k]
              IN  /\ ev.type \in {"status", "brief_status"} =>
                        ev.n = Cardinality(StartsUpTo(r, k))
                  /\ ev.type = "update" =>
                        (k > 1 /\ IsStart(r, k - 1, ev.n))
                  /\ ev.type = "final" =>
                        (k > 1 /\ IsUpdate(r, k - 1, ev.n))

\* Two iterations were announced and the second gave the final answer.
C22_Witness ==
    /\ calls[1] = 2
    /\ Len(emitted[1]) = 5
    /\ IsStart(1, 1, 1)
    /\ IsUpdate(1, 2, 1)
    /\ IsStart(1, 3, 2)
    /\ IsUpdate(1, 4, 2)
    /\ emitted[1][5].type = "final"
    /\ emitted[1][5].n = 2

\* The driver of r is at the head of an iteration with its stop condition true.
MustStop(r) ==
    /\ dpc[r] = "check"
    /\ iter[r] < max_iterations
    /\ cancellation_requested[r] \/ Expired(r)

\* C23: a step of the driver taken at the head of an iteration while the
\* cancellation flag is set or the elapsed time exceeds RLM_TIMEOUT puts
\* exactly one error event (the cancellation one when the flag is set, the
\* timeout one otherwise), begins no backend call and leaves the loop; and
\* after such an error event no iteration is announced.
C23_StopAtIterationHead ==
    /\ [][\A r \in BridgeReq :
            (MustStop(r) /\ dpc'[r] # dpc[r]) =>
                /\ emitted'[r] =
                      Append(emitted[r],
                             Event("error",
                                   IF cancellation_requested[r]
                                   THEN "cancelled" ELSE "timeout",
                                   0, Len(emitted[r]) + 1))
                /\ calls'[r] = calls[r]
                /\ dpc'[r] = "ctx_exit"]_vars
    /\ [](\A r \in BridgeReq : \A k \in 1..Len(emitted[r]) :
            (emitted[r][k].type = "error" /\ emitted[r][k].why \in {"cancelled", "timeout"}) =>
                /\ dpc[r] \in {"ctx_exit", "except", "finally", "done"}
                /\ \A j \in (k + 1)..Len(emitted[r]) : emitted[r][j].type = "error")

\* After one backend call the driver found the flag set, with the deadline
\* passed as well, and reported the cancellation.
C23_Witness ==
    /\ calls[1] = 1
    /\ iter[1] = 1
    /\ Last(emitted[1]).why = "cancelled"
    /\ Expired(1)
    /\ dpc[1] = "done"

\* The response holds a completion phrase, in any letter case.
HasCompletionPhrase(response) ==
    \E i \in 1..Len(response) : response[i] \in {"Final Answer", "COMPLETED"}

\* C24 (as claimed): the decision is the marker's value if the marker is
\* found; else, with a completion phrase in the response, the captured stdout
\* when it is non-empty and the raw response otherwise; else there is no final
\* answer.
C24_DecisionAsClaimed ==
    decision # NoDecision =>
        LET captured == GatherOutputs(turn.stdouts)
            phrase == HasCompletionPhrase(turn.response)
        IN  /\ turn.marker # None =>
                  (decision.found /\ decision.source = "marker"
                                  /\ decision.value = turn.marker)
            /\ (turn.marker = None /\ phrase /\ captured # <<>>) =>
                  (decision.found /\ decision.source = "stdout")
            /\ (turn.marker = None /\ phrase /\ captured = <<>>) =>
                  (decision.found /\ decision.source = "response"
                                  /\ decision.value = turn.response)
            /\ (turn.marker = None /\ ~phrase) => ~decision.found

\* C24 (amended): as above, but the captured stdout is taken, stripped of
\* surrounding whitespace, only when something is left after the stripping;
\* stdout that is empty or all whitespace gives the raw response.
C24_DecisionStripped ==
    decision # NoDecision =>
        LET captured == strip(GatherOutputs(turn.stdouts), Blank)
            phrase == HasCompletionPhrase(turn.response)
        IN  /\ turn.marker # None =>
                  (decision.found /\ decision.source = "marker"
                                  /\ decision.value = turn.marker)
            /\ (turn.marker = None /\ phrase /\ captured # <<>>) =>
                  (decision.found /\ decision.source = "stdout"
                                  /\ decision.value = captured)
            /\ (turn.marker = None /\ phrase /\ captured = <<>>) =>
                  (decision.found /\ decision.source = "response"
                                  /\ decision.value = turn.response)
            /\ (turn.marker = None /\ ~phrase) => ~decision.found

\* No marker, a completion phrase, and a code block that printed a blank:
\* the raw response is the final answer.
C24_Witness ==
    /\ turn.marker = None
    /\ turn.response = <<"thinking", "COMPLETED">>
    /\ turn.stdouts = <<<<" ">>>>
    /\ decision.found
    /\ decision.source = "response"
    /\ decision.value = turn.response

\* The cleaned string the last clean-up resolved.
LastCleaned == CleanUp(norm_trace[Len(norm_trace) - 1])

\* C25: the sandbox is consulted (a lookup in its bindings, a print probe)
\* only for a cleaned string that is a bare identifier, and with that very
\* name; for any other string no call is made and the cleaned string is the
\* result; the print probe is made only when the name is not in the bindings.
C25_ProbeOnlyIdentifiers ==
    Len(norm_trace) >= 2 =>
        /\ \A k \in 1..Len(sandbox_calls) :
              /\ isidentifier(LastCleaned)
              /\ sandbox_calls[k] \in {Lookup(LastCleaned), Probe(LastCleaned)}
        /\ ~isidentifier(LastCleaned) =>
              (sandbox_calls = <<>> /\ final_answer = LastCleaned)
        /\ isidentifier(LastCleaned) => sandbox_calls[1] = Lookup(LastCleaned)
        /\ (\E k \in 1..Len(sandbox_calls) : sandbox_calls[k].call = "execute_code") =>
              ~(LastCleaned \in Names /\ environment[LastCleaned].how = "local")
        /\ Len(sandbox_calls) <= 2

\* A quoted name that the bindings do not hold but the sandbox can print:
\* one lookup, then the probe, whose output is the answer.
C25_Witness ==
    /\ norm_trace[1] = <<"'", "a", "'">>
    /\ Len(norm_trace) = 2
    /\ environment[<<"a">>] = [how |-> "global", val |-> <<" ", "1">>]
    /\ sandbox_calls = <<Lookup(<<"a">>), Probe(<<"a">>)>>
    /\ final_answer = <<"1">>


\* The block's last line asks the sandbox for a value and gets none: the
\* sandbox raises, or gives the name back.
ResolutionFails ==
    /\ block.form \in {"assign", "ident"}
    /\ isidentifier(block.name)
    /\ block.stdout = <<>>
    /\ block.stderr = <<>>
    /\ \/ block.raises
       \/ Resolve(CleanUp(block.name), environment).value = block.name

\* C26: a block without stdout and stderr whose value resolution raises or
\* gives the name back is shown with the result [No Output]; no exception
\* leaves the rendering and the update of the iteration is put.
C26_FailedResolutionNoOutput ==
    (rendered # NoRender /\ ResolutionFails) =>
        /\ rendered.shown
        /\ rendered.result = NoOutput
        /\ ~rendered.escaped
        /\ rendered.update

C26_Witness ==
    /\ rendered # NoRender
    /\ ResolutionFails
    /\ block.raises
    /\ rendered.result = NoOutput
    /\ rendered.update


\* The frames of r that carry the final answer, and its error frames.
FinalFrames(r) ==
    {k \in 1..Len(frames[r]) : frames[r][k].kind = "content" /\ frames[r][k].of = "final"}

ErrorFrames(r) == {k \in 1..Len(frames[r]) : frames[r][k].kind = "error"}

\* C27 (as claimed): a stream that carries a final frame carries no error
\* frame, and a stream with an error frame carries no final frame.
C27_FinalExcludesError ==
    \A r \in BridgeReq : FinalFrames(r) = {} \/ ErrorFrames(r) = {}

\* The deadline passes after the final answer was delivered, while the driver
\* has not yet left its completion context: a timeout error frame follows.
C27_ReachTimeoutAfterFinal ==
    \A r \in BridgeReq :
        ~(/\ FinalFrames(r) # {}
          /\ Last(frames[r]) = Frame("error", "timeout")
          /\ NoErrorEvent(r))

\* The completion context fails to close after the final event: a worker
\* error frame follows the final frame.
C27_ReachFailedAfterFinal ==
    \A r \in BridgeReq :
        ~(/\ FinalFrames(r) # {}
          /\ Last(frames[r]).kind = "error"
          /\ Last(frames[r]).of = "driver"
          /\ exit[r] = "drained")


\* The positions of the terminal events (final or error) among the events the
\* driver of r has put.
TerminalEvents(r) ==
    {k \in 1..Len(emitted[r]) : emitted[r][k].type \in {"final", "error"}}

\* C28 (as claimed): a driver run puts at most one terminal event, and no
\* event after it.
C28_OneTerminalEventLast ==
    \A r \in BridgeReq :
        /\ Cardinality(TerminalEvents(r)) <= 1
        /\ \A k \in TerminalEvents(r) : k = Len(emitted[r])

\* The completion context raises on its way out after the final event was
\* put: the except clause adds a worker error event.
C28_ReachErrorAfterFinal ==
    \A r \in BridgeReq :
        ~(/\ Len(emitted[r]) >= 2
          /\ emitted[r][Len(emitted[r]) - 1].type = "final"
          /\ Last(emitted[r]).type = "error"
          /\ Last(emitted[r]).why = "worker"
          /\ dpc[r] = "done")


\* The requests whose rlm_worker thread was started and has not yet set
\* thread_done.
RunningWorkers == {r \in Req : dpc[r] # "none" /\ ~thread_done[r]}

\* C29 (as claimed): the workers still executing never outnumber
\* MAX_CONCURRENT_RLM.
C29_RunningWorkersBounded == Cardinality(RunningWorkers) <= MAX_CONCURRENT_RLM


\* C30 (as claimed): a driver run puts at most 2 * max_iterations + 1 events,
\* so the queue of a request never holds more than that.
C30_BridgeBounded ==
    \A r \in BridgeReq :
        /\ Len(emitted[r]) <= 2 * max_iterations + 1
        /\ Len(message_queue[r]) <= 2 * max_iterations + 1

\* The bound is exceeded only by the second terminal event of C28, and by one.
C30_BoundButForSecondTerminal ==
    \A r \in BridgeReq :
        /\ Len(emitted[r]) <= 2 * max_iterations + 2
        /\ Cardinality(TerminalEvents(r)) <= 1 =>
              Len(emitted[r]) <= 2 * max_iterations + 1

\* Every iteration of the budget put its two events, the last one gave the
\* final answer, and the context's exit added a worker error: all of them are
\* still in the queue.
C30_ReachFullQueue ==
    \A r \in BridgeReq : Len(message_queue[r]) < 2 * max_iterations + 2


\* The stream of r is closed and both of its slots are given back.
Released(r) ==
    /\ cpc[r] = "closed"
    /\ acq[r].gen_dec = 1
    /\ acq[r].rlm_dec = 1
    /\ active_generations = pre[r].gen
    /\ active_rlm_generations = pre[r].rlm

\* C31: the stream of every admitted agent request is eventually closed with
\* its two slots released, whatever the driver does (finishes, raises, or
\* stays in a backend call for ever), provided the clock advances and the
\* event loop keeps running the request.
C31_AdmittedEventuallyReleased ==
    \A r \in BridgeReq : (outcome[r] = "admitted") ~> Released(r)

\* The backend call never returned: the consumer's own deadline closed the
\* stream and released the slots while the driver is still in its first call.
C31_Witness ==
    /\ Released(1)
    /\ exit[1] = "timeout"
    /\ dpc[1] = "call"
    /\ iter[1] = 0
    /\ emitted[1] = taken[1]
    /\ ~thread_done[1]


\* Everything a request owns: its generators' and its worker's positions, its
\* bridge (queue, events, start time), its frames and its buffers.
Own(r) ==
    <<cpc[r], dpc[r], iter[r], message_queue[r], thread_done[r],
      cancellation_requested[r], start_time[r], frames[r], emitted[r], taken[r],
      calls[r], raised[r], assistant_full_content[r], chat_full_content[r],
      logged[r], outcome[r], exit[r], acq[r], pre[r]>>

\* The frames stream_rlm_completion yields for the events of a sequence.
RECURSIVE FramesOf(_, _)
FramesOf(events, thinking) ==
    IF events = <<>> THEN <<>>
    ELSE FrameOf(Head(events), thinking) \o FramesOf(Tail(events), thinking)

\* The frames of r that come from events of a driver.
BridgeFrames(r) ==
    SelectSeq(frames[r], LAMBDA f : f.of \notin {"startup", "capacity", "timeout", "rlm_missing"})

C33_FlagsMonotone ==
    /\ [][\A r \in BridgeReq :
            /\ (~cancellation_requested[r] /\ cancellation_requested'[r]) =>
                  (Expired(r) /\ cpc[r] = "empty")
            /\ cancellation_requested[r] => cancellation_requested'[r]
            /\ thread_done[r] => thread_done'[r]]_vars
    /\ [](\A r \in BridgeReq :
            /\ dpc[r] = "done" <=> thread_done[r]
            /\ dpc[r] = "finally" => ENABLED SetDone(r))
    /\ \A r \in BridgeReq : (dpc[r] = "enter") ~> thread_done[r]

\* The consumer has timed out and set the flag, and the driver has left
\* through its except clause and set thread_done.
C33_Witness ==
    /\ cancellation_requested[1]
    /\ Expired(1)
    /\ thread_done[1]
    /\ HasEvent(1, "error", "worker")

\* The other exit paths of the driver, each with thread_done set.
C33_ReachAfterFinal == thread_done[1] /\ HasEvent(1, "final", "") /\ raised[1] = 0

C33_ReachAfterError == thread_done[1] /\ HasEvent(1, "error", "timeout") /\ raised[1] = 0

C33_ReachExhausted == thread_done[1] /\ emitted[1] # <<>> /\ TerminalEvents(1) = {}


\* No stream is open: every request is either not submitted or over.
NoStreamOpen == \A r \in GenReq : cpc[r] \in {"new", "closed"}

\* The requests rejected for capacity whose caller closed the stream at the
\* capacity error frame (the leak of C4).
RejectedClosed == {r \in GenReq : exit[r] = "rejected_closed"}

\* C34 (as claimed): the two counters are never negative and both are 0
\* whenever no stream is open.
C34_CountersZeroWhenIdle ==
    /\ active_generations >= 0
    /\ active_rlm_generations >= 0
    /\ NoStreamOpen => (active_generations = 0 /\ active_rlm_generations = 0)

\* What remains of C34 with the leak of C4 counted: the counters are never
\* negative, the agent-loop counter is 0 when no stream is open, and
\* active_generations then is the number of leaked rejections.
C34_CountersButForLeak ==
    /\ active_generations >= 0
    /\ active_rlm_generations >= 0
    /\ NoStreamOpen =>
          /\ active_rlm_generations = 0
          /\ active_generations = Cardinality(RejectedClosed)

\* Every stream is over, one of them a leaked rejection.
C34_ReachLeakIdle ==
    ~(/\ \A r \in GenReq : cpc[r] = "closed"
      /\ Cardinality(RejectedClosed) = 1
      /\ active_generations = 1)


\* A passcode is configured and the passcode of r is missing or is not the
\* configured one.
WrongPasscode(r) ==
    /\ ~Falsy(RLM_PASSCODE)
    /\ Falsy(rlm_passcode[r]) \/ rlm_passcode[r] # RLM_PASSCODE

\* C35: with a passcode configured and the agent backend present, a request
\* whose passcode is missing or wrong gets one error frame and nothing else;
\* it cannot enter rlm_generate, no counter is changed for it, no worker is
\* started, no backend call is made and nothing is logged.
C35_WrongPasscodeDenied ==
    /\ [](\A r \in BridgeReq :
            (HAS_RLM /\ WrongPasscode(r)) =>
                /\ ~ENABLED Start(r)
                /\ outcome[r] \in {"none", "denied"}
                /\ frames[r] =
                      (IF cpc[r] = "new" THEN <<>>
                       ELSE IF Falsy(rlm_passcode[r])
                       THEN <<Frame("error", "auth_missing")>>
                       ELSE <<Frame("error", "auth_invalid")>>)
                /\ acq[r] = NoAcq
                /\ dpc[r] = "none"
                /\ calls[r] = 0
                /\ emitted[r] = <<>>
                /\ logged[r] = <<>>)
    /\ [][(\E r \in BridgeReq : HAS_RLM /\ WrongPasscode(r)) =>
             UNCHANGED <<active_generations, active_rlm_generations>>]_vars

\* A request with a passcode other than the configured one was denied and
\* its stream is over, while another stream holds the agent slot.
C35_Witness ==
    /\ RLM_PASSCODE = "p"
    /\ rlm_passcode[1] = "q"
    /\ exit[1] = "denied"
    /\ frames[1] = <<Frame("error", "auth_invalid")>>
    /\ active_generations = 1
    /\ active_rlm_generations = 1

\* The other cases: a missing passcode is denied, the configured passcode
\* is admitted.
C35_ReachMissing ==
    /\ RLM_PASSCODE = "q" /\ rlm_passcode[1] = ""
    /\ exit[1] = "denied" /\ frames[1] = <<Frame("error", "auth_missing")>>

C35_ReachAccepted ==
    /\ RLM_PASSCODE = "p" /\ rlm_passcode[1] = "p"
    /\ outcome[1] = "admitted" /\ calls[1] > 0


\* The ids whose last track_session lies within the timeout window at time t.
WithinWindow(t) ==
    {s \in SessionIds :
        last_tracked[s] # Never /\ last_tracked[s] >= t - SESSION_TIMEOUT_MINUTES}

\* A step that returns from get_active_sessions.
CountsSessions == GetActiveSessions \/ \E sid \in SessionIds : CreateSession(sid)

\* C36: get_active_sessions deletes every entry older than the timeout, keeps
\* the others and returns how many remain, which is the number of distinct
\* ids tracked within the window; track_session gives the id the current
\* time, adds an entry only for an id that has none, and touches no other
\* entry.
C36_ActiveSessionCount ==
    /\ [](\A s \in DOMAIN page_loads : page_loads[s] = last_tracked[s])
    /\ [][CountsSessions =>
            /\ DOMAIN page_loads' = WithinWindow(now)'
            /\ active_count' = Cardinality(WithinWindow(now)')
            /\ \A s \in DOMAIN page_loads' :
                  page_loads'[s] >= now - SESSION_TIMEOUT_MINUTES]_vars
    /\ [][\A sid \in SessionIds :
            TrackSession(sid) =>
                /\ page_loads'[sid] = now
                /\ DOMAIN page_loads' = DOMAIN page_loads \cup {sid}
                /\ \A s \in DOMAIN page_loads : s # sid => page_loads'[s] = page_loads[s]]_vars

\* Three ids were loaded; one has expired and was deleted, one was loaded
\* exactly SESSION_TIMEOUT_MINUTES ago and still counts, one was refreshed.
C36_Witness ==
    /\ now = 2
    /\ last_tracked = <<0, 1, 2>>
    /\ DOMAIN page_loads = {2, 3}
    /\ active_count = 2


\* The first list the filter returned.
Filtered == filter_trace[1]

\* The keys of a message other than its image.
OtherKeys(m) == DOMAIN m \ {"image"}

\* Same length, and at most one message with an image: the last message of
\* the input that had one, if any.
OneImageLeft ==
    /\ Len(Filtered) = Len(original)
    /\ ImageIndexes(Filtered) =
          (IF ImageIndexes(original) = {} THEN {}
           ELSE {last_image_idx(original)})

\* C37 (as claimed): same length and order, the last image only, every field
\* other than image as it was in every message, the input list not changed,
\* and a second application changes nothing.
C37_FilterAsClaimed ==
    filter_trace # <<>> =>
        /\ OneImageLeft
        /\ \A i \in 1..Len(original) :
              /\ OtherKeys(Filtered[i]) = OtherKeys(original[i])
              /\ \A k \in OtherKeys(original[i]) : Filtered[i][k] = original[i][k]
        /\ messages = original
        /\ Len(filter_trace) = 2 => filter_trace[2] = Filtered

\* C37 (amended): same length and order, the last image only; a message
\* whose image is removed loses its image_type with it and keeps every other
\* field, every other message is returned as it was; the input list is not
\* changed; a second application changes nothing.
C37_FilterKeepsLatest ==
    filter_trace # <<>> =>
        /\ OneImageLeft
        /\ \A i \in 1..Len(original) :
              IF HasImage(original[i]) /\ i # last_image_idx(original)
              THEN /\ DOMAIN Filtered[i] = DOMAIN original[i] \ {"image", "image_type"}
                   /\ \A k \in DOMAIN Filtered[i] : Filtered[i][k] = original[i][k]
              ELSE Filtered[i] = original[i]
        /\ messages = original
        /\ Len(filter_trace) = 2 => filter_trace[2] = Filtered

\* Two messages with an image and an image_type and in between one whose
\* image is empty: the filter was applied twice.
C37_Witness ==
    /\ Len(filter_trace) = 2
    /\ Len(original) = 3
    /\ HasImage(original[1]) /\ "image_type" \in DOMAIN original[1]
    /\ "image" \in DOMAIN original[2] /\ ~HasImage(original[2])
    /\ HasImage(original[3])
    /\ ImageIndexes(Filtered) = {3}
    /\ DOMAIN Filtered[1] = {"content"}

====
